---- MODULE Spec2Model ----
(***************************************************************************)
(* Tissue-aware probabilistic tracking (scilpy/tracking): the tracker, the *)
(* tissue handlers, the seed-growth protocol of get_line_from_seed and the *)
(* seed-distribution driver of track().                                    *)
(*                                                                         *)
(* The volume is one row of NVox voxels.  A position is an integer number  *)
(* of length units, VoxSize units to a voxel; a direction is an integer    *)
(* number of sixths of a unit vector (+6 and -6 are the two unit           *)
(* directions), so that the Runge-Kutta combinations of the handlers are   *)
(* exact.                                                                  *)
(***************************************************************************)
EXTENDS Integers, Sequences, FiniteSets, Bags, TLC

-----------------------------------------------------------------------------
(* Bounds of the model *)

\* number of voxels of the classification volume
NVox == 3
\* largest param['max_nbr_pts']
MaxPts == 3
\* largest param['min_nbr_pts']
MaxMinPts == 2
\* largest requested nbr_processes (and the cpu count of the machine)
MaxProc == 3
\* largest param['nbr_seeds']
MaxSeeds == 4
\* largest param['skip']
MaxSkip == 1
\* largest param['random']
MaxRandom == 1

(* Program constants *)

\* get_n_streamlines(..., max_tries=100, ...)
max_tries == 100
\* max_iter_in_nulcei = 20 in the putamen and pallidum handlers
max_iter_in_nulcei == 20
\* newV = (v1 + 2 * v2 + 2 * v3 + v4) / 6
RK4Den == 6

(* Data representation *)

\* length units per voxel
VoxSize == 12
\* config[tissue]['step_size'], in length units: one voxel per step
StepSize == 12
\* number of states of the numpy global generator in the model
RngMod == 7

VARIABLES
    atlas,              \* atlas.data: voxel -> tissue label
    odf,                \* voxel -> whether the spherical function is non-zero
    param,              \* the tracking parameters (a dict in the source)
    tracker_functions,  \* Tracker.tracker_functions: label -> handler class
    pc,                 \* where the program is
    g,                  \* the frame of get_line_from_seed / _get_line
    drv,                \* the frame of track() and of its workers
    tc                  \* the frame of a tissue configurator's can_continue

vars == <<atlas, odf, param, tracker_functions, pc, g, drv, tc>>

-----------------------------------------------------------------------------
(* None values of the source *)

NoDir == 99
NoPos == -999
NoLabel == -1
NoneLine == [isNone |-> TRUE, pts |-> <<>>]
Some(l) == [isNone |-> FALSE, pts |-> l]

Vox == 0 .. (NVox - 1)
Unit == RK4Den
UnitDirs == <<Unit, -Unit>>

-----------------------------------------------------------------------------
(* The numpy global generator: np.random.seed, and one draw *)

Hash(pos, random) == (pos + 3 * random + 1) % RngMod

Advance(rng) == (3 * rng + 1) % RngMod

-----------------------------------------------------------------------------
(* The classification volume and the direction field (external providers) *)

Clamp(v) == IF v < 0 THEN 0 ELSE IF v > NVox - 1 THEN NVox - 1 ELSE v

PosToVox(pos) == Clamp(pos \div VoxSize)

getPositionValue(pos) == atlas[PosToVox(pos)]

VoxCentre(v) == v * VoxSize + (VoxSize \div 2)

-----------------------------------------------------------------------------
(* tissue_tracker.py: the registry and the handlers *)

tissue_trackers ==
    [l \in 0 .. 12 |->
        CASE l = 0 -> "background"
          [] l = 1 -> "wm"
          [] l = 2 -> "gm"
          [] l = 3 -> "csf"
          [] l = 4 -> "putamen"
          [] l = 5 -> "pallidum"
          [] l = 6 -> "hippocampus"
          [] l = 7 -> "caudate"
          [] l = 8 -> "amygdala"
          [] l = 9 -> "accumbens"
          [] l = 10 -> "background"
          [] l = 11 -> "thalamus"
          [] l = 12 -> "background"]

\* config[tissue]['theta']: the aperture of the handler's tracking field
config_theta(cls) == IF cls \in {"putamen", "pallidum"} THEN "wide" ELSE "narrow"

get_tissue_tracker_function(pos) == tracker_functions[getPositionValue(pos)]

\* tracking_field.get_tracking_SF(pos, v_in): the directions of positive weight
get_tracking_SF(pos, v_in) ==
    IF ~odf[PosToVox(pos)] THEN <<>>
    ELSE IF config_theta(get_tissue_tracker_function(pos)) = "wide" THEN UnitDirs
    ELSE IF v_in > 0 THEN <<Unit>>
    ELSE IF v_in < 0 THEN <<-Unit>>
    ELSE <<>>

\* sample_distribution(sf): one draw of the numpy global generator
sample_distribution(sf, rng) == (Advance(rng) % Len(sf)) + 1

\* tracking_field.get_init_direction(pos): a direction drawn from the
\* spherical function and its opposite, or (None, None)
init_pair(d, rng) == [fwd |-> d, bwd |-> -d, rng |-> Advance(rng)]

get_init_direction(pos, rng) ==
    IF ~odf[PosToVox(pos)]
    THEN [fwd |-> NoDir, bwd |-> NoDir, rng |-> rng]
    ELSE init_pair(UnitDirs[sample_distribution(UnitDirs, rng)], rng)

\* probabilisticTracker.get_direction: if np.sum(sf) > 0, a direction drawn
\* from sf, None otherwise
draw_direction(sf, rng) ==
    IF Len(sf) > 0
    THEN [dir |-> sf[sample_distribution(sf, rng)], rng |-> Advance(rng)]
    ELSE [dir |-> NoDir, rng |-> rng]

get_direction(pos, v_in, rng) == draw_direction(get_tracking_SF(pos, v_in), rng)

\* faulty variant of valid_or: the missing direction is not reported
valid_or_unreported(v_in, o) ==
    IF o.dir = NoDir
    THEN [valid |-> TRUE, v |-> v_in, rng |-> o.rng]
    ELSE [valid |-> TRUE, v |-> o.dir, rng |-> o.rng]

\* tissue_tracker.getValidDirection: v_in stands in for a missing direction
valid_or(v_in, o) ==
    IF o.dir = NoDir
    THEN [valid |-> FALSE, v |-> v_in, rng |-> o.rng]
    ELSE [valid |-> TRUE, v |-> o.dir, rng |-> o.rng]

getValidDirection(pos, v_in, rng) == valid_or(v_in, get_direction(pos, v_in, rng))

\* pos + f * step_size * v, for a direction v in sixths: f = num / den
Displace(pos, num, den, v) == pos + (num * StepSize * v) \div (den * RK4Den)

\* the direction sampled half a step (num/den = 1/2) or a full step along d.v
sample_after(pos, num, den, d) ==
    getValidDirection(Displace(pos, num, den, d.v), d.v, d.rng)

\* tissue_tracker.get_segment and putamen_tissue_tracker.get_segment
rk2_segment(pos, d1, d2) ==
    [pos |-> Displace(pos, 1, 1, d2.v), dir |-> d2.v,
     valid |-> d1.valid, rng |-> d2.rng]

rk2_from(pos, d1) == rk2_segment(pos, d1, sample_after(pos, 1, 2, d1))

default_get_segment(pos, v_in, rng) ==
    rk2_from(pos, getValidDirection(pos, v_in, rng))

\* faulty variant of rk4_newV: the four samples weigh the same
rk4_newV_unweighted(d1, d2, d3, d4) == (d1.v + d2.v + d3.v + d4.v) \div RK4Den

\* wm_tissue_tracker.get_segment
rk4_newV(d1, d2, d3, d4) == (d1.v + 2 * d2.v + 2 * d3.v + d4.v) \div RK4Den

rk4_segment(pos, newV, d1, d4) ==
    [pos |-> Displace(pos, 1, 1, newV), dir |-> newV,
     valid |-> d1.valid, rng |-> d4.rng]

rk4_from4(pos, d1, d2, d3, d4) == rk4_segment(pos, rk4_newV(d1, d2, d3, d4), d1, d4)

rk4_from3(pos, d1, d2, d3) == rk4_from4(pos, d1, d2, d3, sample_after(pos, 1, 1, d3))

rk4_from2(pos, d1, d2) == rk4_from3(pos, d1, d2, sample_after(pos, 1, 2, d2))

rk4_from1(pos, d1) == rk4_from2(pos, d1, sample_after(pos, 1, 2, d1))

wm_get_segment(pos, v_in, rng) ==
    rk4_from1(pos, getValidDirection(pos, v_in, rng))

\* gm_, csf_ and background_tissue_tracker.get_segment
null_get_segment(pos, v_in, rng) ==
    [pos |-> NoPos, dir |-> NoDir, valid |-> FALSE, rng |-> rng]

get_segment(cls, pos, v_in, rng) ==
    CASE cls = "wm" -> wm_get_segment(pos, v_in, rng)
      [] cls \in {"gm", "csf", "background"} -> null_get_segment(pos, v_in, rng)
      [] OTHER -> default_get_segment(pos, v_in, rng)

\* faulty variant of propagate_out: is_valid is not looked at
propagate_out_unchecked(s) ==
    [pos |-> s.pos, dir |-> s.dir,
     label |-> IF s.pos = NoPos THEN NoLabel ELSE getPositionValue(s.pos),
     rng |-> s.rng]

\* Tracker.propagate: the null triple for an invalid segment, else the new
\* position and direction and the label read at the new position
propagate_out(s) ==
    IF s.valid
    THEN [pos |-> s.pos, dir |-> s.dir,
          label |-> getPositionValue(s.pos), rng |-> s.rng]
    ELSE [pos |-> NoPos, dir |-> NoDir, label |-> NoLabel, rng |-> s.rng]

propagate(pos, v_in, rng) ==
    propagate_out(get_segment(get_tissue_tracker_function(pos), pos, v_in, rng))

\* faulty variant of initialize_out: a failed attempt leaves the record of the
\* seed before it
initialize_out_keeps(pos, d) ==
    IF d.fwd # NoDir /\ d.bwd # NoDir
    THEN [init_pos |-> pos, forward_dir |-> d.fwd, backward_dir |-> d.bwd,
          ok |-> TRUE, rng |-> d.rng]
    ELSE [g.t EXCEPT !.ok = FALSE, !.rng = d.rng]

\* Tracker.initialize: records init_pos, forward_dir and backward_dir
initialize_out(pos, d) ==
    [init_pos |-> pos, forward_dir |-> d.fwd, backward_dir |-> d.bwd,
     ok |-> (d.fwd # NoDir /\ d.bwd # NoDir), rng |-> d.rng]

initialize(pos, rng) == initialize_out(pos, get_init_direction(pos, rng))

\* what a handler's _append_to_line returns
Appended(line, dirs, fin, rng) ==
    [isNone |-> FALSE, line |-> line, dirs |-> dirs, fin |-> fin, rng |-> rng]

NoneAppended(rng) ==
    [isNone |-> TRUE, line |-> <<>>, dirs |-> <<>>, fin |-> TRUE, rng |-> rng]

\* line[-cur_nb_iter - 1:-1]
last_n_steps(line, cur_nb_iter) ==
    LET n == Len(line)
        lo == IF n - cur_nb_iter - 1 < 0 THEN 0 ELSE n - cur_nb_iter - 1
    IN  SubSeq(line, lo + 1, n - 1)

\* putamen_tissue_tracker._append_to_line and pallidum_tissue_tracker._append_to_line
history(steps) == {getPositionValue(steps[i]) : i \in 1 .. Len(steps)}

\* faulty variant of is_stopping: the length of the line is not looked at
is_stopping_any_length(tissue_value, line, steps) ==
    history(steps) = {tissue_value}

is_stopping(tissue_value, line, steps) ==
    Len(line) > max_iter_in_nulcei /\ history(steps) = {tissue_value}

\* np.random.randint(1, max_iter_in_nulcei)
cur_nb_iter(r) == 1 + (r % (max_iter_in_nulcei - 1))

\* faulty variant of nuclei_append_to_line: the direction is not recorded
nuclei_append_point_only(tissue_value, new_pos, new_dir, line, dirs, rng) ==
    Appended(Append(line, new_pos), dirs,
             is_stopping(tissue_value, line,
                         last_n_steps(line, cur_nb_iter(Advance(rng)))),
             Advance(rng))

\* the handler once cur_nb_iter is drawn: both branches append the point and
\* the direction, and return is_stopping
nuclei_append_drawn(tissue_value, new_pos, new_dir, line, dirs, cur, rng) ==
    Appended(Append(line, new_pos), Append(dirs, new_dir),
             is_stopping(tissue_value, line, last_n_steps(line, cur)), rng)

nuclei_append_to_line(tissue_value, new_pos, new_dir, line, dirs, rng) ==
    nuclei_append_drawn(tissue_value, new_pos, new_dir, line, dirs,
                        cur_nb_iter(Advance(rng)), Advance(rng))

\* faulty variant of class_append_to_line: csf and background append and stop
class_append_default(cls, tissue_key, new_pos, new_dir, line, dirs, rng) ==
    CASE cls = "wm" ->
           Appended(Append(line, new_pos), Append(dirs, new_dir), FALSE, rng)
      [] cls \in {"putamen", "pallidum"} ->
           nuclei_append_to_line(tissue_key, new_pos, new_dir, line, dirs, rng)
      [] OTHER ->
           Appended(Append(line, new_pos), Append(dirs, new_dir), TRUE, rng)

\* faulty variant of class_append_to_line: the wm handler appends nothing
class_append_wm_stalls(cls, tissue_key, new_pos, new_dir, line, dirs, rng) ==
    CASE cls = "wm" -> Appended(line, dirs, FALSE, rng)
      [] cls \in {"csf", "background"} -> NoneAppended(rng)
      [] cls \in {"putamen", "pallidum"} ->
           nuclei_append_to_line(tissue_key, new_pos, new_dir, line, dirs, rng)
      [] OTHER ->
           Appended(Append(line, new_pos), Append(dirs, new_dir), TRUE, rng)

\* the _append_to_line of each handler class
class_append_to_line(cls, tissue_key, new_pos, new_dir, line, dirs, rng) ==
    CASE cls = "wm" ->
           Appended(Append(line, new_pos), Append(dirs, new_dir), FALSE, rng)
      [] cls \in {"csf", "background"} -> NoneAppended(rng)
      [] cls \in {"putamen", "pallidum"} ->
           nuclei_append_to_line(tissue_key, new_pos, new_dir, line, dirs, rng)
      [] OTHER ->
           Appended(Append(line, new_pos), Append(dirs, new_dir), TRUE, rng)

\* tissue_tracker.append_to_line
append_to_line(tissue_key, new_pos, new_dir, line, dirs, rng) ==
    IF tissue_key \in DOMAIN tissue_trackers
    THEN class_append_to_line(tracker_functions[tissue_key], tissue_key,
                              new_pos, new_dir, line, dirs, rng)
    ELSE NoneAppended(rng)

-----------------------------------------------------------------------------
(* local_tracking.py: _get_line *)

\* faulty variant of body_out: the is_finished signal is ignored
body_out_never_finished(a) ==
    IF a.isNone
    THEN [ctl |-> "break", line |-> <<>>, dirs |-> <<>>, rng |-> a.rng]
    ELSE [ctl |-> "loop", line |-> a.line, dirs |-> a.dirs, rng |-> a.rng]

\* one pass of the while loop of _get_line: "loop", "return" (is_finished)
\* or "break" (null triple, or null line)
body_out(a) ==
    IF a.isNone
    THEN [ctl |-> "break", line |-> <<>>, dirs |-> <<>>, rng |-> a.rng]
    ELSE [ctl |-> IF a.fin THEN "return" ELSE "loop",
          line |-> a.line, dirs |-> a.dirs, rng |-> a.rng]

\* faulty variant of body_after_propagate: the line grown so far is returned
\* when propagate gives the null triple
body_after_propagate_keeps(line, dirs, p) ==
    IF p.pos = NoPos
    THEN [ctl |-> "return", line |-> line, dirs |-> dirs, rng |-> p.rng]
    ELSE body_out(append_to_line(p.label, p.pos, p.dir, line, dirs, p.rng))

\* new_pos is None: break; else append_to_line and the two tests after it
body_after_propagate(line, dirs, p) ==
    IF p.pos = NoPos
    THEN [ctl |-> "break", line |-> line, dirs |-> dirs, rng |-> p.rng]
    ELSE body_out(append_to_line(p.label, p.pos, p.dir, line, dirs, p.rng))

get_line_body(line, dirs, rng) ==
    body_after_propagate(line, dirs,
                         propagate(line[Len(line)], dirs[Len(dirs)], rng))

\* while len(line) < param['max_nbr_pts']
get_line_guard(line) == Len(line) < param.max_nbr_pts

RECURSIVE get_line_loop(_, _, _)
loop_after(b) ==
    CASE b.ctl = "return" -> [ret |-> Some(b.line), rng |-> b.rng]
      [] b.ctl = "break" -> [ret |-> NoneLine, rng |-> b.rng]
      [] OTHER -> get_line_loop(b.line, b.dirs, b.rng)

get_line_loop(line, dirs, rng) ==
    IF get_line_guard(line)
    THEN loop_after(get_line_body(line, dirs, rng))
    ELSE [ret |-> NoneLine, rng |-> rng]

get_line(t, is_forward, rng) ==
    get_line_loop(<<t.init_pos>>,
                  <<IF is_forward THEN t.forward_dir ELSE t.backward_dir>>, rng)

-----------------------------------------------------------------------------
(* local_tracking.py: get_line_from_seed *)

\* faulty variant of seed_rng: the generator is left as the previous seed left it
seed_rng_carried(pos, rng) == rng

\* np.random.seed(np.uint32(hash((pos, param['random']))))
seed_rng(pos, rng) == Hash(pos, param.random)

Reverse(l) == [i \in 1 .. Len(l) |-> l[Len(l) + 1 - i]]

\* the value get_line_from_seed returns: None, a line, or a line and others
NoneResult == [isNone |-> TRUE, pts |-> <<>>, others |-> <<>>]
Result(line, others) == [isNone |-> FALSE, pts |-> line, others |-> others]

in_length_bounds(l) ==
    Len(l) >= param.min_nbr_pts /\ Len(l) <= param.max_nbr_pts

\* if forward is not None and len(forward) > 0: line.extend(forward_line).
\* A line of _get_line is a flat list of positions (np.shape has two axes), so
\* no auxiliary line is split off and others stays empty.
after_forward(forward) ==
    IF ~forward.isNone /\ Len(forward.pts) > 0
    THEN [line |-> forward.pts, others |-> <<>>]
    ELSE [line |-> <<>>, others |-> <<>>]

\* faulty variant of run_backward: is_single_direction is not looked at
run_backward_both_ways(forward, line) == ~forward.isNone /\ Len(line) > 0

\* if not param['is_single_direction'] and forward is not None and len(line) > 0
run_backward(forward, line) ==
    ~param.is_single_direction /\ ~forward.isNone /\ Len(line) > 0

\* faulty variant of merge_backward: the seed of the reversed line is kept
merge_backward_no_pop(line, backward) ==
    IF ~backward.isNone /\ Len(backward.pts) > 0
    THEN Reverse(line) \o backward.pts
    ELSE line

\* faulty variant of merge_backward: the forward line is not reversed
merge_backward_unreversed(line, backward) ==
    IF ~backward.isNone /\ Len(backward.pts) > 0
    THEN SubSeq(line, 1, Len(line) - 1) \o backward.pts
    ELSE line

\* line.reverse(); line.pop(); line.extend(backward_line)
merge_backward(line, backward) ==
    IF ~backward.isNone /\ Len(backward.pts) > 0
    THEN SubSeq(Reverse(line), 1, Len(line) - 1) \o backward.pts
    ELSE line

\* faulty variant of single_point: min_nbr_pts is not looked at
single_point_any_min(pos) ==
    IF param.is_keep_single_pts
    THEN Result(<<pos>>, <<>>)
    ELSE NoneResult

\* if param['is_keep_single_pts'] and param['min_nbr_pts'] == 1: return [pos]
single_point(pos) ==
    IF param.is_keep_single_pts /\ param.min_nbr_pts = 1
    THEN Result(<<pos>>, <<>>)
    ELSE NoneResult

\* faulty variant of accept: a backward attempt that did not complete is let through
accept_ignoring_backward(pos, line, forward, backward, others) ==
    IF /\ Len(line) > 1
       /\ ~forward.isNone
       /\ Len(line) >= param.min_nbr_pts
       /\ Len(line) <= param.max_nbr_pts
    THEN Result(line, others)
    ELSE single_point(pos)

\* faulty variant of accept: a rejected line is never replaced by the seed
accept_rejects_to_none(pos, line, forward, backward, others) ==
    IF /\ Len(line) > 1
       /\ ~forward.isNone
       /\ ~backward.isNone
       /\ Len(line) >= param.min_nbr_pts
       /\ Len(line) <= param.max_nbr_pts
    THEN Result(line, others)
    ELSE NoneResult

\* the acceptance test of the merged line
accept(pos, line, forward, backward, others) ==
    IF /\ Len(line) > 1
       /\ ~forward.isNone
       /\ ~backward.isNone
       /\ Len(line) >= param.min_nbr_pts
       /\ Len(line) <= param.max_nbr_pts
    THEN Result(line, others)
    ELSE single_point(pos)

\* the seed's growth after a successful initialize
seed_accept(pos, f, af, back, b) ==
    [result |-> accept(pos,
                       IF back THEN merge_backward(af.line, b.ret) ELSE af.line,
                       f.ret, b.ret, af.others),
     rng |-> b.rng]

seed_backward(pos, t, f, af, back) ==
    seed_accept(pos, f, af, back,
                IF back THEN get_line(t, FALSE, f.rng)
                ELSE [ret |-> Some(<<>>), rng |-> f.rng])

seed_after_forward(pos, t, f, af) ==
    seed_backward(pos, t, f, af, run_backward(f.ret, af.line))

seed_forward(pos, t, f) == seed_after_forward(pos, t, f, after_forward(f.ret))

seed_initialized(pos, t) ==
    IF t.ok
    THEN seed_forward(pos, t, get_line(t, TRUE, t.rng))
    ELSE [result |-> single_point(pos), rng |-> t.rng]

get_line_from_seed(pos, rng) ==
    seed_initialized(pos, initialize(pos, seed_rng(pos, rng)))

-----------------------------------------------------------------------------
(* The inputs: volumes, parameters *)

\* the classification volumes: two end voxels around a homogeneous middle
EndLabels == {0, 1, 2, 3, 4, 6}
MidLabels == {1, 4}
Volume(left, mid, right) ==
    [v \in Vox |-> IF v = 0 THEN left ELSE IF v = NVox - 1 THEN right ELSE mid]

\* the direction fields: non-zero everywhere but in at most one voxel
Field(hole) == [v \in Vox |-> v # hole]

Registry(a) == [l \in {a[v] : v \in Vox} |-> tissue_trackers[l]]

IdleDriver == [call |-> 0]
IdleGrowth == [pos |-> NoPos]
IdleGate == [kind |-> "none"]

-----------------------------------------------------------------------------
(* The growth of one seed, one pass of the loop of _get_line at a time *)

\* what the tracker holds when a seed starts: nothing yet, or the init_pos,
\* forward_dir and backward_dir of the seed before it
NeverInitialized ==
    [init_pos |-> NoPos, forward_dir |-> NoDir, backward_dir |-> NoDir,
     ok |-> FALSE, rng |-> 0]

PreviousRecords ==
    {NeverInitialized} \cup
        {[init_pos |-> VoxCentre(w), forward_dir |-> Unit,
          backward_dir |-> -Unit, ok |-> TRUE, rng |-> 0] : w \in Vox}

InitGrow ==
    /\ \E left \in EndLabels, mid \in MidLabels, right \in EndLabels :
          atlas = Volume(left, mid, right)
    /\ \E hole \in Vox \cup {NVox} : odf = Field(hole)
    /\ \E mn \in 1 .. MaxMinPts, mx \in 0 .. MaxPts, sd \in BOOLEAN, ks \in BOOLEAN :
          param = [random |-> 0, skip |-> 0, nbr_seeds |-> 1, nbr_streamlines |-> 0,
                   processes |-> 1, min_nbr_pts |-> mn, max_nbr_pts |-> mx,
                   is_single_direction |-> sd, is_keep_single_pts |-> ks]
    /\ tracker_functions = Registry(atlas)
    /\ pc = "seed"
    /\ \E v \in Vox, t \in PreviousRecords :
          g = [pos |-> VoxCentre(v), rng |-> 0,
               t |-> t,
               is_forward |-> TRUE, line |-> <<>>, line_dirs |-> <<>>,
               ctl |-> "none", forward |-> NoneLine, backward |-> NoneLine,
               fwd_end |-> "none", bwd_end |-> "none",
               mline |-> <<>>, others |-> <<>>, result |-> NoneResult]
    /\ drv = IdleDriver
    /\ tc = IdleGate

\* np.random.seed(...); tracker.initialize(pos); then the first lines of the
\* forward _get_line, or the return for a seed that cannot start
seeded(t) ==
    IF t.ok
    THEN [g EXCEPT !.t = t, !.rng = t.rng, !.is_forward = TRUE,
                   !.line = <<t.init_pos>>, !.line_dirs = <<t.forward_dir>>]
    ELSE [g EXCEPT !.t = t, !.rng = t.rng, !.result = single_point(g.pos)]

G_Seed ==
    /\ pc = "seed"
    /\ g' = seeded(initialize(g.pos, seed_rng(g.pos, g.rng)))
    /\ pc' = IF g'.t.ok THEN "forward" ELSE "done"
    /\ UNCHANGED <<tc, atlas, odf, param, tracker_functions, drv>>

\* the frame after _get_line returned r in the current direction
returned(r, how) ==
    IF g.is_forward
    THEN [g EXCEPT !.forward = r, !.fwd_end = how, !.ctl = how]
    ELSE [g EXCEPT !.backward = r, !.bwd_end = how, !.ctl = how]

\* tracker.isPositionInBound: the position is inside the image
isPositionInBound(pos) == pos >= 0 /\ pos < NVox * VoxSize

\* while ... not tracker.isPositionInBound(line[-1]): line.pop()
RECURSIVE trimmed(_)
trimmed(line) ==
    IF Len(line) > 0 /\ ~isPositionInBound(line[Len(line)])
    THEN trimmed(SubSeq(line, 1, Len(line) - 1))
    ELSE line

\* faulty variant of iterated: the returned line is trimmed to the image
iterated_trimming(b) ==
    CASE b.ctl = "return" ->
           [returned(Some(trimmed(b.line)), "return") EXCEPT
               !.line = b.line, !.line_dirs = b.dirs, !.rng = b.rng]
      [] b.ctl = "break" ->
           [returned(NoneLine, "break") EXCEPT
               !.line = b.line, !.line_dirs = b.dirs, !.rng = b.rng]
      [] OTHER ->
           [g EXCEPT !.line = b.line, !.line_dirs = b.dirs, !.rng = b.rng,
                     !.ctl = "loop"]

\* the frame after one pass of the loop of _get_line
iterated(b) ==
    CASE b.ctl = "return" ->
           [returned(Some(b.line), "return") EXCEPT
               !.line = b.line, !.line_dirs = b.dirs, !.rng = b.rng]
      [] b.ctl = "break" ->
           [returned(NoneLine, "break") EXCEPT
               !.line = b.line, !.line_dirs = b.dirs, !.rng = b.rng]
      [] OTHER ->
           [g EXCEPT !.line = b.line, !.line_dirs = b.dirs, !.rng = b.rng,
                     !.ctl = "loop"]

\* one evaluation of the while condition of _get_line, and one pass of its body
G_Iter ==
    /\ pc \in {"forward", "backward"}
    /\ g' = IF get_line_guard(g.line)
            THEN iterated(get_line_body(g.line, g.line_dirs, g.rng))
            ELSE returned(NoneLine, "exhausted")
    /\ pc' = IF g'.ctl = "loop" THEN pc
             ELSE IF pc = "forward" THEN "fwd_ret" ELSE "bwd_ret"
    /\ UNCHANGED <<tc, atlas, odf, param, tracker_functions, drv>>

\* get_line_from_seed after the forward _get_line: the forward line is taken,
\* then either the backward _get_line starts or backward = [] and the line is
\* tested
forward_taken(af) ==
    IF run_backward(g.forward, af.line)
    THEN [g EXCEPT !.mline = af.line, !.others = af.others,
                   !.is_forward = FALSE, !.ctl = "none",
                   !.line = <<g.t.init_pos>>,
                   !.line_dirs = <<g.t.backward_dir>>]
    ELSE [g EXCEPT !.mline = af.line, !.others = af.others,
                   !.backward = Some(<<>>), !.bwd_end = "skipped",
                   !.result = accept(g.pos, af.line, g.forward,
                                     Some(<<>>), af.others)]

G_AfterForward ==
    /\ pc = "fwd_ret"
    /\ g' = forward_taken(after_forward(g.forward))
    /\ pc' = IF g'.bwd_end = "skipped" THEN "done" ELSE "backward"
    /\ UNCHANGED <<tc, atlas, odf, param, tracker_functions, drv>>

\* get_line_from_seed after the backward _get_line: merge and test
merged(line) ==
    [g EXCEPT !.mline = line,
              !.result = accept(g.pos, line, g.forward, g.backward, g.others)]

G_AfterBackward ==
    /\ pc = "bwd_ret"
    /\ g' = merged(merge_backward(g.mline, g.backward))
    /\ pc' = "done"
    /\ UNCHANGED <<tc, atlas, odf, param, tracker_functions, drv>>

NextGrow == G_Seed \/ G_Iter \/ G_AfterForward \/ G_AfterBackward

SpecGrow == InitGrow /\ [][NextGrow]_vars

-----------------------------------------------------------------------------
(* local_tracking.py: get_streamlines, get_n_streamlines and track *)

\* seeding_mask.get_next_pos(random_generator, indices, which_seed): the
\* position of the seed of absolute index which_seed
get_next_pos(which_seed) == VoxCentre(which_seed % NVox)

\* chunk_size = int(param['nbr_seeds'] / param['processes'])
base_chunk_size == param.nbr_seeds \div param.processes

\* faulty variant of chunk_size_of: the remainder is not given to the last chunk
chunk_size_no_remainder(chunk_id) == base_chunk_size

\* if chunk_id == param['processes'] - 1:
\*     chunk_size += param['nbr_seeds'] % param['processes']
chunk_size_of(chunk_id) ==
    IF chunk_id = param.processes - 1
    THEN base_chunk_size + (param.nbr_seeds % param.processes)
    ELSE base_chunk_size

\* faulty variant of first_seed_of_chunk: every chunk starts at skip
first_seed_no_offset(chunk_id) == param.skip

\* first_seed_of_chunk = chunk_id * chunk_size + skip
first_seed_of_chunk(chunk_id) == chunk_id * base_chunk_size + param.skip

\* the frame of get_streamlines before its loop
get_streamlines_begin(chunk_id, rng) ==
    [chunk_id |-> chunk_id, chunk_size |-> chunk_size_of(chunk_id),
     first |-> first_seed_of_chunk(chunk_id), s |-> 0,
     streamlines |-> <<>>, seeds |-> <<>>, rng |-> rng,
     status |-> "running", tried |-> <<>>]

\* the lines of one seed's result, as the loops append them
lines_of(result) ==
    IF result.isNone THEN <<>>
    ELSE IF Len(result.others) > 0 THEN <<result.pts>> \o result.others
    ELSE <<result.pts>>

seeds_of(result, seed, save_seeds) ==
    IF save_seeds THEN [i \in 1 .. Len(lines_of(result)) |-> seed] ELSE <<>>

\* one pass of the for loop of get_streamlines, the seed given
streamlines_appended(f, idx, seed, out, save_seeds) ==
    [f EXCEPT !.s = f.s + 1,
              !.streamlines = f.streamlines \o lines_of(out.result),
              !.seeds = f.seeds \o seeds_of(out.result, seed, save_seeds),
              !.rng = out.rng,
              !.tried = Append(f.tried, [idx |-> idx, pos |-> seed,
                                         rng0 |-> f.rng, out |-> out.result])]

\* one pass of the for loop of get_streamlines; the seed generator raises at
\* the absolute index `fault`
get_streamlines_body(f, fault, save_seeds) ==
    IF f.first + f.s = fault
    THEN [f EXCEPT !.status = "raised"]
    ELSE streamlines_appended(f, f.first + f.s, get_next_pos(f.first + f.s),
                              get_line_from_seed(get_next_pos(f.first + f.s), f.rng),
                              save_seeds)

RECURSIVE get_streamlines_loop(_, _, _)
get_streamlines_loop(f, fault, save_seeds) ==
    IF f.status = "raised" THEN f
    ELSE IF f.s < f.chunk_size
    THEN get_streamlines_loop(get_streamlines_body(f, fault, save_seeds),
                              fault, save_seeds)
    ELSE [f EXCEPT !.status = "done"]

get_streamlines(chunk_id, rng, fault, save_seeds) ==
    get_streamlines_loop(get_streamlines_begin(chunk_id, rng), fault, save_seeds)

\* faulty variant of get_streamlines_sub: the exception is swallowed and what
\* the chunk has so far is returned
get_streamlines_sub_swallow(chunk_id, rng, fault, save_seeds) ==
    [get_streamlines(chunk_id, rng, fault, save_seeds) EXCEPT !.status = "done"]

\* _get_streamlines_sub: the exception of get_streamlines is printed and raised again
get_streamlines_sub(chunk_id, rng, fault, save_seeds) ==
    get_streamlines(chunk_id, rng, fault, save_seeds)

\* multiprocessing.cpu_count()
cpu_count == MaxProc

\* faulty variant of clamped_processes: the number is not limited to nbr_seeds
clamped_processes_unlimited(nbr_processes) ==
    IF nbr_processes <= 0 THEN cpu_count ELSE nbr_processes

\* track: the number of processes, lines 49-63
clamped_processes(nbr_processes) ==
    IF (IF nbr_processes <= 0 THEN cpu_count ELSE nbr_processes) > param.nbr_seeds
    THEN param.nbr_seeds
    ELSE IF nbr_processes <= 0 THEN cpu_count ELSE nbr_processes

\* faulty variant of chain: the chunks' outputs are joined last chunk first
RECURSIVE chain_reversed(_, _, _)
chain_reversed(frames, field, k) ==
    IF k > Len(frames) THEN <<>>
    ELSE chain_reversed(frames, field, k + 1)
         \o (IF field = "streamlines" THEN frames[k].streamlines ELSE frames[k].seeds)

\* itertools.chain(*lines_per_process)
RECURSIVE chain(_, _, _)
chain(frames, field, k) ==
    IF k > Len(frames) THEN <<>>
    ELSE (IF field = "streamlines" THEN frames[k].streamlines ELSE frames[k].seeds)
         \o chain(frames, field, k + 1)

NoFault == -1
NoReturn == [lines |-> <<>>, seeds |-> <<>>, returned |-> FALSE]
Returned(lines, seeds) == [lines |-> lines, seeds |-> seeds, returned |-> TRUE]

\* the frame of get_n_streamlines before its loop
get_n_streamlines_begin(rng) ==
    [i |-> 0, streamlines |-> <<>>, seeds |-> <<>>, skip |-> 0,
     first |-> param.skip, rng |-> rng, tried |-> <<>>]

\* while (len(streamlines) < param['nbr_streamlines'] and
\*        skip < param['nbr_streamlines'] * max_tries)
get_n_streamlines_guard(f) ==
    /\ Len(f.streamlines) < param.nbr_streamlines
    /\ f.skip < param.nbr_streamlines * max_tries

\* faulty variant of n_appended: the seed of a rejected line is saved too
n_appended_every_seed(f, seed, out, save_seeds) ==
    [f EXCEPT !.i = f.i + 1,
              !.streamlines = IF out.result.isNone THEN f.streamlines
                              ELSE Append(f.streamlines, out.result.pts),
              !.seeds = IF ~save_seeds THEN f.seeds ELSE Append(f.seeds, seed),
              !.rng = out.rng,
              !.tried = f.tried]

\* one pass of the while loop of get_n_streamlines
n_appended(f, seed, out, save_seeds) ==
    [f EXCEPT !.i = f.i + 1,
              !.streamlines = IF out.result.isNone THEN f.streamlines
                              ELSE Append(f.streamlines, out.result.pts),
              !.seeds = IF out.result.isNone \/ ~save_seeds THEN f.seeds
                        ELSE Append(f.seeds, seed),
              !.rng = out.rng,
              !.tried = f.tried]

get_n_streamlines_body(f, save_seeds) ==
    n_appended(f, get_next_pos(f.first + f.i),
               get_line_from_seed(get_next_pos(f.first + f.i), f.rng), save_seeds)

-----------------------------------------------------------------------------
(* The tracking script: the tracker is built, then track() is called; it is *)
(* called once per entry of drv.requests, with that number of processes.   *)

\* a label that tissue_trackers does not register
UnknownLabel == 13

DriverLabels == {0, 2}

Procs == 1 .. MaxProc

IdleFrame ==
    [chunk_id |-> 0, chunk_size |-> 0, first |-> 0, s |-> 0, streamlines |-> <<>>,
     seeds |-> <<>>, rng |-> 0, status |-> "idle", tried |-> <<>>]

IdleN ==
    [i |-> 0, streamlines |-> <<>>, seeds |-> <<>>, skip |-> 0, first |-> 0,
     rng |-> 0, tried |-> <<>>]

InitParams(n, ns, sk, rd, ks) ==
    [random |-> rd, skip |-> sk, nbr_seeds |-> n, nbr_streamlines |-> ns,
     processes |-> 0, min_nbr_pts |-> 1, max_nbr_pts |-> MaxPts,
     is_single_direction |-> FALSE, is_keep_single_pts |-> ks]

InitDriver(requests, fault) ==
    [call |-> 1, requests |-> requests, fault |-> fault, save_seeds |-> TRUE,
     nbr_processes |-> 0, main_rng |-> 0,
     frame |-> IdleFrame, n |-> IdleN,
     proc_rng |-> [p \in Procs |-> 0],
     done |-> <<>>, next_task |-> 0,
     results |-> <<>>, raised |-> FALSE, attempts |-> {},
     seed_voxels |-> NVox, npv |-> 0]

\* the runs: all seeds with 1 process and then with P; the same with a seed
\* generator that raises at one seed; a fixed number of streamlines; a number
\* of seeds per voxel (--npv); a volume with a label that has no handler; and
\* a seeding mask without any voxel
Init ==
    /\ odf = Field(NVox)
    /\ tracker_functions = <<>>
    /\ pc = "script"
    /\ g = IdleGrowth
    /\ tc = IdleGate
    /\ \/ /\ \E left \in DriverLabels, mid \in MidLabels, right \in DriverLabels :
                atlas = Volume(left, mid, right)
          /\ \/ \E n \in 1 .. MaxSeeds, P \in 0 .. MaxProc, sk \in 0 .. MaxSkip,
                   rd \in 0 .. MaxRandom, ks \in BOOLEAN :
                   /\ param = InitParams(n, 0, sk, rd, ks)
                   /\ drv = InitDriver(<<1, P>>, NoFault)
             \/ \E n \in 1 .. MaxSeeds, P \in 0 .. MaxProc :
                   /\ param = InitParams(n, 0, 0, 0, TRUE)
                   /\ drv = [InitDriver(<<P>>, NoFault) EXCEPT !.save_seeds = FALSE]
             \/ \E n \in 1 .. MaxSeeds, P \in 0 .. MaxProc, fault \in 0 .. MaxSeeds - 1 :
                   /\ fault < n
                   /\ param = InitParams(n, 0, 0, 0, TRUE)
                   /\ drv = InitDriver(<<P>>, fault)
             \/ \E ns \in 1 .. 2, sk \in 0 .. MaxSkip, rd \in 0 .. MaxRandom,
                   ks \in BOOLEAN, ss \in BOOLEAN :
                   /\ param = InitParams(0, ns, sk, rd, ks)
                   /\ drv = [InitDriver(<<1>>, NoFault) EXCEPT !.save_seeds = ss]
             \/ \E P \in 0 .. MaxProc, sk \in 0 .. MaxSkip :
                   /\ param = InitParams(0, 0, sk, 0, TRUE)
                   /\ drv = [InitDriver(<<P>>, NoFault) EXCEPT !.npv = 1]
             \/ \E npv \in 0 .. 1 :
                   /\ param = InitParams(1 - npv, 0, 0, 0, TRUE)
                   /\ drv = [InitDriver(<<1>>, NoFault) EXCEPT
                                !.npv = npv, !.seed_voxels = 0]
       \/ /\ \E v \in Vox, mid \in MidLabels :
                atlas = [Volume(mid, mid, mid) EXCEPT ![v] = UnknownLabel]
          /\ param = InitParams(1, 0, 0, 0, TRUE)
          /\ drv = InitDriver(<<1>>, NoFault)

\* if args.npv: nbr_seeds and skip are counted per voxel of the seeding mask
seeds_per_voxel(npv, seed_voxels) ==
    IF npv # 0
    THEN [param EXCEPT !.nbr_seeds = seed_voxels * npv,
                       !.skip = seed_voxels * param.skip]
    ELSE param

\* faulty variant of seed_check: an empty seeding mask is let through
seed_check_skipped(seed_voxels) == "main"

\* if len(seed.seeds) == 0: parser.error(...)
seed_check(seed_voxels) == IF seed_voxels = 0 THEN "parser_error" ELSE "main"

\* the script loads the seeding mask, before it builds the tracker
Script_load_seeds ==
    /\ pc = "script"
    /\ param' = seeds_per_voxel(drv.npv, drv.seed_voxels)
    /\ pc' = seed_check(drv.seed_voxels)
    /\ UNCHANGED <<tc, atlas, odf, tracker_functions, g, drv>>

\* abstractTracker.__init__: one handler per label of np.unique(atlas.data);
\* tissue_trackers[str(int(label))] raises KeyError for a label it has not
Tracker_init ==
    /\ pc = "main"
    /\ IF {atlas[v] : v \in Vox} \subseteq DOMAIN tissue_trackers
       THEN tracker_functions' = Registry(atlas) /\ pc' = "ready"
       ELSE tracker_functions' = tracker_functions /\ pc' = "KeyError"
    /\ UNCHANGED <<tc, atlas, odf, param, g, drv>>

\* track(), to the call of get_streamlines, of pool.map or of get_n_streamlines
track_begin ==
    /\ pc = "ready"
    /\ IF param.nbr_streamlines = 0
       THEN /\ param' = [param EXCEPT
                           !.processes = clamped_processes(drv.requests[drv.call])]
            /\ drv' = [drv EXCEPT
                         !.nbr_processes = param'.processes,
                         !.frame = IdleFrame,
                         !.done = [c \in 1 .. param'.processes |-> IdleFrame],
                         !.proc_rng = [p \in Procs |-> drv.main_rng],
                         !.next_task = 0]
            /\ pc' = IF param'.processes < 2 THEN "serial" ELSE "pool"
       ELSE /\ param' = param
            /\ drv' = [drv EXCEPT !.n = get_n_streamlines_begin(drv.main_rng)]
            /\ pc' = "n_loop"
    /\ UNCHANGED <<tc, atlas, odf, tracker_functions, g>>

\* get_streamlines in the calling process (chunk_id = np.arange(1)), to its loop
Serial_begin ==
    /\ pc = "serial"
    /\ drv.frame.status = "idle"
    /\ drv' = [drv EXCEPT !.frame = get_streamlines_begin(0, drv.main_rng)]
    /\ UNCHANGED <<tc, atlas, odf, param, tracker_functions, pc, g>>

after_call == IF drv.call < Len(drv.requests) THEN "ready" ELSE "done"

\* the seeds a frame of get_streamlines has tried so far
attempts_of(f) == {f.tried[k] : k \in 1 .. Len(f.tried)}

serial_ran(f) ==
    [drv EXCEPT !.frame = f, !.attempts = drv.attempts \cup attempts_of(f)]

\* get_streamlines in the calling process: one pass of its for loop
Serial_iter ==
    /\ pc = "serial"
    /\ drv.frame.status = "running"
    /\ drv.frame.s < drv.frame.chunk_size
    /\ drv' = serial_ran(get_streamlines_body(drv.frame, drv.fault, drv.save_seeds))
    /\ UNCHANGED <<tc, atlas, odf, param, tracker_functions, pc, g>>

\* get_streamlines returns to track, which returns lines, seeds
Serial_return ==
    /\ pc = "serial"
    /\ drv.frame.status = "running"
    /\ drv.frame.s >= drv.frame.chunk_size
    /\ drv' = [drv EXCEPT
                 !.frame.status = "done",
                 !.main_rng = drv.frame.rng,
                 !.results = Append(drv.results,
                                    Returned(drv.frame.streamlines, drv.frame.seeds)),
                 !.call = drv.call + 1]
    /\ pc' = after_call
    /\ UNCHANGED <<tc, atlas, odf, param, tracker_functions, g>>

\* the exception of get_streamlines leaves track
Serial_raise ==
    /\ pc = "serial"
    /\ drv.frame.status = "raised"
    /\ drv' = [drv EXCEPT !.raised = TRUE, !.main_rng = drv.frame.rng]
    /\ pc' = "raised"
    /\ UNCHANGED <<tc, atlas, odf, param, tracker_functions, g>>

\* a process of the pool takes the next chunk and runs _get_streamlines_sub on it
worker_ran(p, f) ==
    [drv EXCEPT !.done[f.chunk_id + 1] = f,
                !.proc_rng[p] = f.rng,
                !.next_task = drv.next_task + 1,
                !.attempts = drv.attempts \cup attempts_of(f)]

Worker_run(p) ==
    /\ pc = "pool"
    /\ p <= drv.nbr_processes
    /\ drv.next_task < drv.nbr_processes
    /\ drv' = worker_ran(p, get_streamlines_sub(drv.next_task, drv.proc_rng[p],
                                                drv.fault, drv.save_seeds))
    /\ UNCHANGED <<tc, atlas, odf, param, tracker_functions, pc, g>>

AllDone == \A c \in 1 .. Len(drv.done) : drv.done[c].status = "done"
SomeRaised == \E c \in 1 .. Len(drv.done) : drv.done[c].status = "raised"

\* pool.map returns the chunks' results in chunk order; track chains them
Pool_return ==
    /\ pc = "pool"
    /\ AllDone
    /\ drv' = [drv EXCEPT
                 !.results = Append(drv.results,
                                    Returned(chain(drv.done, "streamlines", 1),
                                             chain(drv.done, "seeds", 1))),
                 !.call = drv.call + 1]
    /\ pc' = after_call
    /\ UNCHANGED <<tc, atlas, odf, param, tracker_functions, g>>

\* pool.map raises the exception of a chunk; it leaves track
Pool_raise ==
    /\ pc = "pool"
    /\ SomeRaised
    /\ drv' = [drv EXCEPT !.raised = TRUE]
    /\ pc' = "raised"
    /\ UNCHANGED <<tc, atlas, odf, param, tracker_functions, g>>

\* the largest number of seeds the model lets get_n_streamlines try
MaxTried == param.nbr_streamlines * max_tries + 1

\* get_n_streamlines: one pass of its while loop
N_iter ==
    /\ pc = "n_loop"
    /\ get_n_streamlines_guard(drv.n)
    /\ drv.n.i < MaxTried
    /\ drv' = [drv EXCEPT !.n = get_n_streamlines_body(drv.n, drv.save_seeds)]
    /\ UNCHANGED <<tc, atlas, odf, param, tracker_functions, pc, g>>

\* get_n_streamlines returns to track, which returns lines, seeds
N_return ==
    /\ pc = "n_loop"
    /\ ~get_n_streamlines_guard(drv.n)
    /\ drv' = [drv EXCEPT
                 !.main_rng = drv.n.rng,
                 !.results = Append(drv.results,
                                    Returned(drv.n.streamlines, drv.n.seeds)),
                 !.call = drv.call + 1]
    /\ pc' = after_call
    /\ UNCHANGED <<tc, atlas, odf, param, tracker_functions, g>>

Next ==
    \/ Script_load_seeds
    \/ Tracker_init
    \/ track_begin
    \/ Serial_begin
    \/ Serial_iter
    \/ Serial_return
    \/ Serial_raise
    \/ \E p \in Procs : Worker_run(p)
    \/ Pool_return
    \/ Pool_raise
    \/ N_iter
    \/ N_return

Spec == Init /\ [][Next]_vars

-----------------------------------------------------------------------------
(* tissue_configurator.py: can_continue of the tissue configurators.  The  *)
(* interpolated mask value and the draw of random.random() are counted in  *)
(* units of 1/DrawDen.                                                      *)

\* largest max_consecutive_steps of a configuration
MaxW == 3
\* the values and the draws are multiples of 1/DrawDen
DrawDen == 2
\* the largest id of tissue_dict
MaxId == 6

\* tissue_dict
tissue_dict ==
    (0 :> "BackgroundTissue") @@ (1 :> "WmTissue") @@ (2 :> "GmTissue") @@
    (3 :> "NucleiTissue") @@ (4 :> "CsfTissue") @@ (6 :> "GmSurfaceTissue")

\* get_tissue_configurator: only NucleiTissue hands stop_in_nuclei to
\* TissueConfigurator.__init__, whose default is False
get_tissue_configurator(id, stop_in_nuclei, W) ==
    [id |-> id, cls |-> tissue_dict[id],
     stop_in_nuclei |-> (tissue_dict[id] = "NucleiTissue" /\ stop_in_nuclei),
     max_consecutive_steps |-> W]

\* line[-self.max_consecutive_steps:]
window(line, W) ==
    IF W = 0 \/ W >= Len(line) THEN line
    ELSE SubSeq(line, Len(line) - W + 1, Len(line))

\* history: mask.voxmm_to_value(*i, origin='corner') for i in the window
sampled(w) == [k \in 1 .. Len(w) |-> getPositionValue(w[k])]

gate_history(line, W) == sampled(window(line, W))

\* faulty variant of all_identical: the window is never found stuck
all_identical_never(samples) == FALSE

\* len(np.unique(history)) == 1
all_identical(samples) ==
    Cardinality({samples[k] : k \in 1 .. Len(samples)}) = 1

\* difference = value / self.id, or np.abs(value - self.id): a fraction
difference(cls, id, value) ==
    IF cls = "NucleiTissue"
    THEN [num |-> IF value >= id * DrawDen THEN value - id * DrawDen
                  ELSE id * DrawDen - value,
          den |-> DrawDen]
    ELSE [num |-> value, den |-> id * DrawDen]

\* faulty variant of below: rand_value <= difference
below_or_equal(rand_value, d) == rand_value * d.den <= d.num * DrawDen

\* rand_value < difference
below(rand_value, d) == rand_value * d.den < d.num * DrawDen

\* GmTissue, NucleiTissue, CsfTissue and GmSurfaceTissue.can_continue after
\* the test of stop_in_nuclei
stochastic_can_continue(c, line, value, rand_value) ==
    IF all_identical(gate_history(line, c.max_consecutive_steps))
    THEN FALSE
    ELSE below(rand_value, difference(c.cls, c.id, value))

\* can_continue of each class
can_continue(c, line, value, rand_value) ==
    CASE c.cls = "BackgroundTissue" -> FALSE
      [] c.cls = "WmTissue" -> TRUE
      [] c.cls = "NucleiTissue" /\ c.stop_in_nuclei -> FALSE
      [] OTHER -> stochastic_can_continue(c, line, value, rand_value)

\* the labels of the masks of the calls
GateLabels == {2, 3}

\* the lines handed to can_continue: points at voxel centres, the seed at least
GateLines == UNION {[1 .. n -> {VoxCentre(v) : v \in Vox}] : n \in 1 .. MaxPts}

NoValue == -1

InitGate ==
    /\ \E left \in GateLabels : atlas = Volume(left, 3, 3)
    /\ odf = Field(NVox)
    /\ param = InitParams(1, 0, 0, 0, FALSE)
    /\ tracker_functions = <<>>
    /\ pc = "gate"
    /\ g = IdleGrowth
    /\ drv = IdleDriver
    /\ \E id \in DOMAIN tissue_dict, stop \in BOOLEAN, W \in 0 .. MaxW,
          line \in GateLines :
          tc = [c |-> get_tissue_configurator(id, stop, W), line |-> line,
                value |-> NoValue, rand_value |-> NoValue, ret |-> FALSE]

\* one call of can_continue(line, mask): the interpolated value at the last
\* point and the draw are the environment's
TC_can_continue ==
    /\ pc = "gate"
    /\ \E value \in 0 .. (MaxId * DrawDen), rand_value \in 0 .. (DrawDen - 1) :
          tc' = [tc EXCEPT !.value = value, !.rand_value = rand_value,
                           !.ret = can_continue(tc.c, tc.line, value, rand_value)]
    /\ pc' = "gate_done"
    /\ UNCHANGED <<atlas, odf, param, tracker_functions, g, drv>>

NextGate == TC_can_continue

SpecGate == InitGate /\ [][NextGate]_vars

-----------------------------------------------------------------------------
(* tissue_configurator.py: finalize_streamline of GmTissue and NucleiTissue, *)
(* one pass of its loop at a time.                                         *)

\* largest max_nb_ending_steps of a configuration
MaxEnding == 2

\* the lines handed to finalize_streamline: one or two points at voxel centres
FinalLines == UNION {[1 .. n -> {VoxCentre(v) : v \in Vox}] : n \in 1 .. 2}

\* GmTissue.is_valid_endpoint and NucleiTissue.is_valid_endpoint
is_valid_endpoint(c) ==
    IF c.cls = "NucleiTissue" THEN c.stop_in_nuclei ELSE TRUE

\* faulty variant of finalize_seed: the generator is left as it was
finalize_seed_skipped(pos, rng_seed) == tc.rng

\* random.seed(np.uint32(hash((tuple(line[-1]), tracker.rng_seed))))
finalize_seed(pos, rng_seed) == Hash(pos, rng_seed)

\* random.randint(1, max_nb_ending_steps)
randint(lo, hi, rng) == lo + (Advance(rng) % (hi - lo + 1))

\* nb_ending_steps = self.max_nb_ending_steps, redrawn when it is not 0
drawn_ending_steps(max_nb_ending_steps, rng) ==
    IF max_nb_ending_steps # 0
    THEN [nb |-> randint(1, max_nb_ending_steps, rng), rng |-> Advance(rng)]
    ELSE [nb |-> max_nb_ending_steps, rng |-> rng]

\* if new_id != id: the name id is the builtin function, not self.id, and an
\* int is never equal to it
new_id_differs(new_id) == TRUE

\* the frame after the draw of nb_ending_steps
final_begun(d) == [tc EXCEPT !.nb = d.nb, !.rng = d.rng, !.i = 0]

\* the frame after finalize_streamline returned line
final_returned(f, line) == [f EXCEPT !.ret = line, !.returned = TRUE]

\* one pass of the loop: the step is appended, then popped when new_id != id
final_stepped(new_pos, new_dir, new_id) ==
    IF new_id_differs(new_id)
    THEN final_returned(
             [tc EXCEPT !.last_dir = new_dir,
                        !.steps = Append(@, [new_id |-> new_id, kept |-> FALSE])],
             tc.line)
    ELSE [tc EXCEPT !.line = Append(@, new_pos), !.last_dir = new_dir,
                    !.i = @ + 1,
                    !.steps = Append(@, [new_id |-> new_id, kept |-> TRUE])]

NotDrawn == -1

InitFinal ==
    /\ \E left \in GateLabels, mid \in GateLabels, right \in GateLabels :
          atlas = Volume(left, mid, right)
    /\ odf = Field(NVox)
    /\ param = InitParams(1, 0, 0, 0, FALSE)
    /\ tracker_functions = <<>>
    /\ pc = "final"
    /\ g = IdleGrowth
    /\ drv = IdleDriver
    /\ \E id \in GateLabels, stop \in BOOLEAN, m \in 0 .. MaxEnding,
          line \in FinalLines, last_dir \in {Unit, -Unit},
          rng_seed \in 0 .. MaxRandom, rng \in 0 .. (RngMod - 1) :
          tc = [c |-> get_tissue_configurator(id, stop, 1),
                max_nb_ending_steps |-> m, rng_seed |-> rng_seed, rng |-> rng,
                line |-> line, last_dir |-> last_dir, nb |-> NotDrawn, i |-> 0,
                steps |-> <<>>, ret |-> <<>>, returned |-> FALSE]

\* finalize_streamline up to its loop; [] for a class that is no valid endpoint
TF_begin ==
    /\ pc = "final"
    /\ tc' = IF is_valid_endpoint(tc.c)
             THEN final_begun(drawn_ending_steps(
                      tc.max_nb_ending_steps,
                      finalize_seed(tc.line[Len(tc.line)], tc.rng_seed)))
             ELSE final_returned(tc, <<>>)
    /\ pc' = IF is_valid_endpoint(tc.c) THEN "final_loop" ELSE "final_done"
    /\ UNCHANGED <<atlas, odf, param, tracker_functions, g, drv>>

\* one pass of for i in range(nb_ending_steps): tracker.propagator.propagate
\* is the environment's, a step of step_size along a direction it gives
TF_step ==
    /\ pc = "final_loop"
    /\ tc.i < tc.nb
    /\ \E new_dir \in {Unit, -Unit} :
          tc' = final_stepped(
                    Displace(tc.line[Len(tc.line)], 1, 1, new_dir), new_dir,
                    getPositionValue(Displace(tc.line[Len(tc.line)], 1, 1, new_dir)))
    /\ pc' = IF tc'.returned THEN "final_done" ELSE "final_loop"
    /\ UNCHANGED <<atlas, odf, param, tracker_functions, g, drv>>

\* the loop is over: return line
TF_return ==
    /\ pc = "final_loop"
    /\ tc.i >= tc.nb
    /\ tc' = final_returned(tc, tc.line)
    /\ pc' = "final_done"
    /\ UNCHANGED <<atlas, odf, param, tracker_functions, g, drv>>

NextFinal == TF_begin \/ TF_step \/ TF_return

SpecFinal == InitFinal /\ [][NextFinal]_vars

-----------------------------------------------------------------------------
(* tissue_configurator.py: get_closest_vertex.  Positions and vertices are  *)
(* coordinates on one axis; a voxel's candidates are a list of vertices.    *)

\* longest candidate list of a voxel
MaxCand == 3
\* min_dist = 99
min_dist_start == 99

\* the coordinates of the positions and of the vertices
VertexCoords == {0, 5, 10, 100, 110}

CandidateLists == UNION {[1 .. n -> VertexCoords] : n \in 0 .. MaxCand}

\* distance.euclidean(pos, i)
euclidean(p, q) == IF p >= q THEN p - q ELSE q - p

NoVertex == -1
Unbound == -2

\* for id, i in enumerate(canditates): the pass at index k (from 0) onwards
RECURSIVE closest_loop(_, _, _, _, _)
closest_loop(pos, canditates, k, min_dist, min_idx) ==
    IF k >= Len(canditates) THEN min_idx
    ELSE IF euclidean(pos, canditates[k + 1]) < min_dist
    THEN closest_loop(pos, canditates, k + 1,
                      euclidean(pos, canditates[k + 1]), k)
    ELSE closest_loop(pos, canditates, k + 1, min_dist, min_idx)

\* return min_idx: UnboundLocalError when no pass assigned it
returned_min_idx(min_idx) ==
    IF min_idx = Unbound
    THEN [ret |-> NoVertex, raised |-> TRUE]
    ELSE [ret |-> min_idx, raised |-> FALSE]

\* get_closest_vertex(pos, idx, vertices); registered: idx in vertices
get_closest_vertex(pos, registered, canditates) ==
    IF ~registered THEN [ret |-> NoVertex, raised |-> FALSE]
    ELSE IF Len(canditates) > 1
    THEN returned_min_idx(closest_loop(pos, canditates, 0, min_dist_start, Unbound))
    ELSE [ret |-> 0, raised |-> FALSE]

InitVertex ==
    /\ atlas = Volume(2, 2, 2)
    /\ odf = Field(NVox)
    /\ param = InitParams(1, 0, 0, 0, FALSE)
    /\ tracker_functions = <<>>
    /\ pc = "vertex"
    /\ g = IdleGrowth
    /\ drv = IdleDriver
    /\ \E pos \in VertexCoords, registered \in BOOLEAN,
          canditates \in CandidateLists :
          tc = [pos |-> pos, registered |-> registered,
                canditates |-> canditates, ret |-> NoVertex, raised |-> FALSE]

\* one call of get_closest_vertex
TV_get_closest_vertex ==
    /\ pc = "vertex"
    /\ tc' = [tc EXCEPT
                !.ret = get_closest_vertex(tc.pos, tc.registered, tc.canditates).ret,
                !.raised = get_closest_vertex(tc.pos, tc.registered,
                                              tc.canditates).raised]
    /\ pc' = "vertex_done"
    /\ UNCHANGED <<atlas, odf, param, tracker_functions, g, drv>>

NextVertex == TV_get_closest_vertex

SpecVertex == InitVertex /\ [][NextVertex]_vars

-----------------------------------------------------------------------------
(* tissue_tracker.py: _append_to_line of the putamen and pallidum handlers, *)
(* called on lines of up to max_iter_in_nulcei + MaxOver points.  The draw   *)
(* of np.random.randint(1, max_iter_in_nulcei) is any of its values.         *)

\* how many points more than max_iter_in_nulcei the longest line has
MaxOver == 2

NucleiLabels == {4, 5}

\* a line of n points in voxel v, but for its point j (if any) in voxel w
line_but_one(n, v, j, w) ==
    [i \in 1 .. n |-> IF i = j THEN VoxCentre(w) ELSE VoxCentre(v)]

InitNuclei ==
    /\ \E mid \in NucleiLabels, right \in NucleiLabels :
          atlas = Volume(4, mid, right)
    /\ odf = Field(NVox)
    /\ param = InitParams(1, 0, 0, 0, FALSE)
    /\ tracker_functions = Registry(atlas)
    /\ pc = "nuclei"
    /\ g = IdleGrowth
    /\ drv = IdleDriver
    /\ \E n \in 1 .. (max_iter_in_nulcei + MaxOver), v \in Vox, w \in Vox,
          tissue_value \in NucleiLabels :
          \E j \in 0 .. n :
             tc = [tissue_value |-> tissue_value,
                   line |-> line_but_one(n, v, j, w),
                   line_dirs |-> [i \in 1 .. n |-> Unit],
                   cur |-> 0, out |-> NoneAppended(0)]

\* one call of _append_to_line, the new point in the first or the last voxel
TN_append_to_line ==
    /\ pc = "nuclei"
    /\ \E cur \in 1 .. (max_iter_in_nulcei - 1), u \in {0, NVox - 1} :
          tc' = [tc EXCEPT
                   !.cur = cur,
                   !.out = nuclei_append_drawn(tc.tissue_value, VoxCentre(u), Unit,
                                               tc.line, tc.line_dirs, cur, 0)]
    /\ pc' = "nuclei_done"
    /\ UNCHANGED <<atlas, odf, param, tracker_functions, g, drv>>

NextNuclei == TN_append_to_line

SpecNuclei == InitNuclei /\ [][NextNuclei]_vars

-----------------------------------------------------------------------------
(* tissue_configurator.py: finalize_streamline of GmSurfaceTissue, one pass *)
(* of its for loop at a time.  Every vertex of a voxel has the same normal. *)

\* longest line handed to finalize_streamline
MaxSurfLine == 4
\* tissue_dict: the id of GmSurfaceTissue
SurfaceId == 6

SurfaceLabels == {1, SurfaceId}

SurfaceLines ==
    UNION {[1 .. n -> {VoxCentre(v) : v \in Vox}] : n \in 1 .. MaxSurfLine}

\* tracker.vertices[vox_idx]: one vertex, two near ones, or two far ones
SurfaceCandidates == {<<6>>, <<0, 30>>, <<200, 210>>}

\* while len(line) > 1 and count < 3: line.pop(); count += 1
surface_count(line) == IF Len(line) - 1 < 3 THEN Len(line) - 1 ELSE 3

\* the frame after get_closest_vertex: it raised, it found no vertex and []
\* is returned, or the trailing points are popped
surface_begun(v, d) ==
    IF v.raised THEN [tc EXCEPT !.raised = TRUE, !.rng = d.rng]
    ELSE IF v.ret = NoVertex
    THEN final_returned([tc EXCEPT !.rng = d.rng], <<>>)
    ELSE [tc EXCEPT !.rng = d.rng, !.normal_idx = v.ret,
                    !.last_dir = -tc.normal,
                    !.count = surface_count(tc.line),
                    !.line = SubSeq(tc.line, 1, Len(tc.line) - surface_count(tc.line)),
                    !.i = 0]

\* faulty variant of surface_stepped: a point of another label is kept
surface_stepped_keeps(new_pos, new_id) ==
    IF new_id # tc.id
    THEN final_returned(tc, Append(tc.line, new_pos))
    ELSE [tc EXCEPT !.line = Append(@, new_pos), !.i = @ + 1]

\* one pass of the for loop: line.append(new_pos); popped and returned when
\* new_id != self.id
surface_stepped(new_pos, new_id) ==
    IF new_id # tc.id
    THEN final_returned(tc, tc.line)
    ELSE [tc EXCEPT !.line = Append(@, new_pos), !.i = @ + 1]

InitSurface ==
    /\ \E left \in SurfaceLabels, mid \in SurfaceLabels, right \in SurfaceLabels :
          atlas = Volume(left, mid, right)
    /\ odf = Field(NVox)
    /\ param = InitParams(1, 0, 0, 0, FALSE)
    /\ tracker_functions = <<>>
    /\ pc = "surface"
    /\ g = IdleGrowth
    /\ drv = IdleDriver
    /\ \E line \in SurfaceLines, normal \in {Unit, -Unit}, registered \in BOOLEAN,
          canditates \in SurfaceCandidates, m \in {0, MaxEnding} :
          /\ ~registered => canditates = <<6>>
          /\ tc = [id |-> SurfaceId, max_nb_ending_steps |-> m, rng_seed |-> 0,
                   rng |-> 0, line0 |-> line, line |-> line, normal |-> normal,
                   registered |-> registered, canditates |-> canditates,
                   normal_idx |-> NoVertex, last_dir |-> NoDir, count |-> 0,
                   i |-> 0, ret |-> <<>>, returned |-> FALSE, raised |-> FALSE]

\* finalize_streamline up to its for loop
TS_begin ==
    /\ pc = "surface"
    /\ tc' = surface_begun(
                 get_closest_vertex(tc.line[Len(tc.line)], tc.registered,
                                    tc.canditates),
                 drawn_ending_steps(tc.max_nb_ending_steps,
                     finalize_seed(tc.line[Len(tc.line)], tc.rng_seed)))
    /\ pc' = IF tc'.raised THEN "surface_raised"
             ELSE IF tc'.returned THEN "surface_done" ELSE "surface_loop"
    /\ UNCHANGED <<atlas, odf, param, tracker_functions, g, drv>>

\* one pass of for _ in range(count)
TS_step ==
    /\ pc = "surface_loop"
    /\ tc.i < tc.count
    /\ tc' = surface_stepped(
                 Displace(tc.line[Len(tc.line)], 1, 1, tc.last_dir),
                 getPositionValue(Displace(tc.line[Len(tc.line)], 1, 1, tc.last_dir)))
    /\ pc' = IF tc'.returned THEN "surface_done" ELSE "surface_loop"
    /\ UNCHANGED <<atlas, odf, param, tracker_functions, g, drv>>

\* the loop is over: return line
TS_return ==
    /\ pc = "surface_loop"
    /\ tc.i >= tc.count
    /\ tc' = final_returned(tc, tc.line)
    /\ pc' = "surface_done"
    /\ UNCHANGED <<atlas, odf, param, tracker_functions, g, drv>>

NextSurface == TS_begin \/ TS_step \/ TS_return

SpecSurface == InitSurface /\ [][NextSurface]_vars

-----------------------------------------------------------------------------
(* scil_compute_atlas_tracking.py: the validation of --minL and --maxL and   *)
(* the point counts derived from them.  Lengths and the step are whole       *)
(* numbers of one unit of length.                                            *)

\* longest --minL, --maxL of the model
MaxLength == 4
\* longest --step of the model
MaxStep == 3

\* if not args.min_length > 0: parser.error(...)
\* if args.max_length < args.min_length: parser.error(...)
lengths_valid(min_length, max_length) ==
    min_length > 0 /\ ~(max_length < min_length)

\* param['max_nbr_pts'] = int(param['max_length'] / param['step_size'])
max_nbr_pts_of(max_length, step_size) == max_length \div step_size

\* param['min_nbr_pts'] = int(param['min_length'] / param['step_size']) + 1
min_nbr_pts_of(min_length, step_size) == (min_length \div step_size) + 1

InitArgs ==
    /\ atlas = Volume(2, 2, 2)
    /\ odf = Field(NVox)
    /\ param = InitParams(1, 0, 0, 0, FALSE)
    /\ tracker_functions = <<>>
    /\ pc = "args"
    /\ g = IdleGrowth
    /\ drv = IdleDriver
    /\ \E min_length \in 0 .. MaxLength, max_length \in 0 .. MaxLength,
          step_size \in 1 .. MaxStep :
          tc = [min_length |-> min_length, max_length |-> max_length,
                step_size |-> step_size]

\* the two tests of the lengths
TA_validate ==
    /\ pc = "args"
    /\ pc' = IF lengths_valid(tc.min_length, tc.max_length)
             THEN "validated" ELSE "parser_error"
    /\ UNCHANGED <<tc, atlas, odf, param, tracker_functions, g, drv>>

\* the script fills param
TA_derive ==
    /\ pc = "validated"
    /\ param' = [param EXCEPT
                   !.max_nbr_pts = max_nbr_pts_of(tc.max_length, tc.step_size),
                   !.min_nbr_pts = min_nbr_pts_of(tc.min_length, tc.step_size)]
    /\ pc' = "derived"
    /\ UNCHANGED <<tc, atlas, odf, tracker_functions, g, drv>>

NextArgs == TA_validate \/ TA_derive

SpecArgs == InitArgs /\ [][NextArgs]_vars

-----------------------------------------------------------------------------
(* Properties of the seed-distribution driver (Spec) *)

Range(s) == {s[i] : i \in 1 .. Len(s)}

\* the multiset of the elements of a sequence
BagOf(s) == [x \in Range(s) |-> Cardinality({i \in 1 .. Len(s) : s[i] = x})]

\* C1: in cover-all-seeds mode, with the same param['random'], skip, nbr_seeds
\* and configuration, track() with 1 process and track() with P processes
\* return the same multiset of streamlines.
C1_SameMultiset ==
    (param.nbr_streamlines = 0 /\ Len(drv.results) = 2)
        => BagOf(drv.results[1].lines) = BagOf(drv.results[2].lines)

\* both calls returned, the second ran a pool, and grown lines were returned
C1_Witness ==
    /\ param.nbr_streamlines = 0
    /\ Len(drv.results) = 2
    /\ drv.requests[1] = 1
    /\ drv.nbr_processes >= 2
    /\ Len(drv.results[2].lines) >= 2
    /\ \E k \in 1 .. Len(drv.results[2].lines) : Len(drv.results[2].lines[k]) >= 2

\* C3 (as stated): get_n_streamlines tries at most nbr_streamlines * max_tries
\* seeds before it returns.
C3_RetryBudget == drv.n.i <= param.nbr_streamlines * max_tries

\* the absolute seed indices a chunk has processed, in the order it did
indices_of(f) == [k \in 1 .. Len(f.tried) |-> f.tried[k].idx]

\* the chunk i of n seeds over P processes, as the partition is specified
expected_indices(i, n, P, skip) ==
    [k \in 1 .. (IF i = P - 1 THEN (n \div P) + (n % P) ELSE n \div P) |->
        i * (n \div P) + skip + (k - 1)]

\* how many times the chunks processed the absolute index idx
times_processed(idx) ==
    Cardinality({ck \in (1 .. Len(drv.done)) \X (1 .. MaxSeeds + 1) :
                    /\ ck[2] <= Len(drv.done[ck[1]].tried)
                    /\ drv.done[ck[1]].tried[ck[2]].idx = idx})

\* C4: with P >= 2 processes, chunk i processes the indices
\* i*floor(n/P)+skip, ... consecutively, floor(n/P) of them (the last chunk
\* floor(n/P) + n mod P), so every index of [skip, skip+n) is processed exactly
\* once and no other index is processed.
C4_ChunkPartition ==
    (pc = "pool" /\ drv.nbr_processes >= 2 /\ AllDone) =>
        /\ \A c \in 1 .. drv.nbr_processes :
              indices_of(drv.done[c]) =
                  expected_indices(c - 1, param.nbr_seeds, drv.nbr_processes, param.skip)
        /\ \A idx \in 0 .. (MaxSkip + MaxSeeds + 1) :
              times_processed(idx) =
                  IF idx >= param.skip /\ idx < param.skip + param.nbr_seeds
                  THEN 1 ELSE 0

\* every chunk of a pool has run, the seeds do not divide evenly, skip > 0
C4_Witness ==
    /\ pc = "pool"
    /\ drv.nbr_processes >= 2
    /\ AllDone
    /\ param.nbr_seeds % drv.nbr_processes # 0
    /\ param.skip > 0

\* C6 (as stated): building the tracker over a volume with a label that has
\* no handler raises no error.
C6_NoErrorOnUnknownLabel == pc # "KeyError"

\* C7: when the get_streamlines of a worker raises, track() returns no
\* result, whatever the other workers produced, and once every chunk was run
\* the exception is there for pool.map to raise.
C7_WorkerErrorAborts ==
    (drv.fault # NoFault /\ drv.nbr_processes >= 2) =>
        /\ drv.results = <<>>
        /\ pc \in {"pool", "raised"}
        /\ drv.next_task = drv.nbr_processes => SomeRaised

\* track() raised although another worker had produced lines
C7_Witness ==
    /\ pc = "raised"
    /\ drv.nbr_processes >= 2
    /\ \E c \in 1 .. Len(drv.done) :
          drv.done[c].status = "done" /\ Len(drv.done[c].streamlines) > 0

\* C8: the result of a seed position is the same whatever the generator
\* state the process had when it took the seed (whatever it processed before,
\* and whichever process it is).
C8_SeedDeterminesResult ==
    \A a \in drv.attempts : \A b \in drv.attempts : a.pos = b.pos => a.out = b.out

\* the same position was tried from two generator states and grew a line
C8_Witness ==
    \E a \in drv.attempts : \E b \in drv.attempts :
        /\ a.pos = b.pos
        /\ a.rng0 # b.rng0
        /\ ~a.out.isNone
        /\ Len(a.out.pts) >= 2

\* C15: when the seeding mask has no voxel, the script ends with a fatal
\* error: the tracker is never built and track() never processes a seed.
C15_NoSeedsIsFatal ==
    drv.seed_voxels = 0 =>
        /\ pc \in {"script", "parser_error"}
        /\ tracker_functions = <<>>
        /\ drv.attempts = {}
        /\ drv.results = <<>>

\* the script stopped on the error of the empty seeding mask
C15_Witness == drv.seed_voxels = 0 /\ pc = "parser_error"

\* the attempt made at the absolute seed index idx
attempt_at(idx) == CHOOSE a \in drv.attempts : a.idx = idx

\* the lines, and their seeds, of the attempts lo .. hi in ascending index
RECURSIVE lines_in_index_order(_, _)
lines_in_index_order(lo, hi) ==
    IF lo > hi THEN <<>>
    ELSE lines_of(attempt_at(lo).out) \o lines_in_index_order(lo + 1, hi)

RECURSIVE seeds_in_index_order(_, _)
seeds_in_index_order(lo, hi) ==
    IF lo > hi THEN <<>>
    ELSE seeds_of(attempt_at(lo).out, attempt_at(lo).pos, drv.save_seeds)
         \o seeds_in_index_order(lo + 1, hi)

\* C14: in cover-all-seeds mode, for every number of processes, track()
\* returns the lines, and with save_seeds their seeds, in ascending absolute
\* seed index: the chunks' outputs in chunk order, each in index order.
C14_OutputInIndexOrder ==
    param.nbr_streamlines = 0 =>
        \A k \in 1 .. Len(drv.results) :
            /\ drv.results[k].lines =
                   lines_in_index_order(param.skip, param.skip + param.nbr_seeds - 1)
            /\ drv.results[k].seeds =
                   seeds_in_index_order(param.skip, param.skip + param.nbr_seeds - 1)

\* a pool returned, and two of its chunks had produced different lines
C14_Witness ==
    /\ param.nbr_streamlines = 0
    /\ Len(drv.results) = 2
    /\ drv.nbr_processes >= 2
    /\ drv.save_seeds
    /\ \E c \in 1 .. Len(drv.done) : \E d \in 1 .. Len(drv.done) :
          /\ c < d
          /\ Len(drv.done[c].streamlines) > 0
          /\ Len(drv.done[d].streamlines) > 0
          /\ drv.done[c].streamlines # drv.done[d].streamlines

\* the lists of streamlines and of seeds of the frames of get_streamlines (in
\* the calling process and in the chunks of a pool) and of get_n_streamlines
SeedLists ==
    {[lines |-> drv.frame.streamlines, seeds |-> drv.frame.seeds],
     [lines |-> drv.n.streamlines, seeds |-> drv.n.seeds]}
    \cup {[lines |-> drv.done[c].streamlines, seeds |-> drv.done[c].seeds] :
              c \in 1 .. Len(drv.done)}

\* the line k of the list is what the seed position k of the list grows into
grown_from_its_seed(r, k) ==
    get_line_from_seed(r.seeds[k], 0).result = Result(r.lines[k], <<>>)

\* C32: with save_seeds, after any number of processed seeds get_streamlines
\* and get_n_streamlines keep len(seeds) == len(streamlines), and seeds[k] is
\* the seed position streamlines[k] was grown from; without save_seeds the
\* list of seeds stays empty.
C32_SeedsParallelToLines ==
    (pc \in {"serial", "pool", "n_loop"}) =>
        \A r \in SeedLists :
            IF drv.save_seeds
            THEN /\ Len(r.seeds) = Len(r.lines)
                 /\ \A k \in 1 .. Len(r.seeds) : grown_from_its_seed(r, k)
            ELSE r.seeds = <<>>

\* with save_seeds, a list holds the lines of two different seeds, one of
\* them a grown line
C32_Witness ==
    /\ drv.save_seeds
    /\ \E r \in SeedLists :
          /\ Len(r.lines) >= 2
          /\ r.seeds[1] # r.seeds[2]
          /\ \E k \in 1 .. 2 : Len(r.lines[k]) >= 2

\* with save_seeds, a loop holds two lines and has passed a seed that gave none
SeedWithoutLinePassed ==
    /\ drv.save_seeds
    /\ pc = "serial"
    /\ drv.frame.s > Len(drv.frame.streamlines)
    /\ Len(drv.frame.streamlines) >= 2

\* without save_seeds, track() returned lines and no seed
LinesWithoutSeeds ==
    /\ ~drv.save_seeds
    /\ \E k \in 1 .. Len(drv.results) :
          Len(drv.results[k].lines) >= 2 /\ drv.results[k].seeds = <<>>

\* the frames of get_streamlines that have started
StartedChunks ==
    {f \in {drv.frame} \cup {drv.done[c] : c \in 1 .. Len(drv.done)} :
        f.status # "idle"}

\* C37: in cover-all-seeds mode with nbr_seeds >= 1, after track() has set
\* the number of processes, 1 <= param['processes'] <= nbr_seeds, so
\* floor(nbr_seeds / processes) >= 1 and every chunk processes at least one
\* seed.
C37_EveryChunkHasASeed ==
    (param.nbr_streamlines = 0 /\ param.nbr_seeds >= 1 /\ pc \in {"serial", "pool"}) =>
        /\ 1 <= param.processes
        /\ param.processes <= param.nbr_seeds
        /\ param.nbr_seeds \div param.processes >= 1
        /\ \A f \in StartedChunks :
              /\ f.chunk_size >= 1
              /\ f.status = "done" => Len(f.tried) >= 1

\* more processes were asked for than there are seeds, and every chunk of the
\* pool has run
C37_Witness ==
    /\ param.nbr_streamlines = 0
    /\ pc = "pool"
    /\ drv.requests[drv.call] > param.nbr_seeds
    /\ param.processes = param.nbr_seeds
    /\ AllDone

-----------------------------------------------------------------------------
(* Properties of the growth of one seed (SpecGrow) *)

\* C2 (as stated): every line get_line_from_seed returns has between
\* min_nbr_pts and max_nbr_pts points.
C2_LengthBound ==
    (pc = "done" /\ ~g.result.isNone) =>
        /\ in_length_bounds(g.result.pts)
        /\ \A k \in 1 .. Len(g.result.others) : in_length_bounds(g.result.others[k])

\* the merged line was returned
Accepted == ~g.result.isNone /\ Len(g.result.pts) > 1

\* C5: after a successful initialize, the merged line is returned iff the
\* forward attempt completed, the backward attempt completed or was skipped,
\* and the merged line is within the length bounds; otherwise what is returned
\* is nothing or the seed alone, never a grown point.
C5_AcceptIff ==
    (pc = "done" /\ g.t.ok) =>
        /\ Accepted <=> (/\ g.fwd_end = "return"
                         /\ g.bwd_end \in {"return", "skipped"}
                         /\ in_length_bounds(g.mline))
        /\ Accepted => g.result.pts = g.mline
        /\ ~Accepted => (g.result.isNone \/ g.result.pts = <<g.pos>>)

\* a grown forward line was rejected because the backward attempt broke off
C5_Witness ==
    /\ pc = "done"
    /\ g.t.ok
    /\ g.fwd_end = "return"
    /\ g.bwd_end \in {"break", "exhausted"}
    /\ in_length_bounds(g.mline)
    /\ ~Accepted

\* whether appending point i of the line makes its handler signal is_finished
signals_finished(l, i) ==
    \A r \in 0 .. (RngMod - 1) :
        /\ ~append_to_line(getPositionValue(l[i]), l[i], NoDir,
                           SubSeq(l, 1, i - 1), <<>>, r).isNone
        /\ append_to_line(getPositionValue(l[i]), l[i], NoDir,
                          SubSeq(l, 1, i - 1), <<>>, r).fin

\* the lines of the two directions: the one being grown and the ones returned
DirectionLines == {g.line, g.forward.pts, g.backward.pts}

\* C9: within a direction, the point whose append signalled is_finished is the
\* last point of the line and ends the direction; a point entered in grey
\* matter is the only point appended there.
C9_NoPointAfterFinish ==
    (pc # "seed") =>
        /\ \A l \in DirectionLines : \A i \in 2 .. Len(l) :
              signals_finished(l, i) => i = Len(l)
        /\ \A l \in DirectionLines : \A i \in 2 .. Len(l) :
              getPositionValue(l[i]) = 2 =>
                  (i = Len(l) /\ getPositionValue(l[i - 1]) # 2)
        /\ (Len(g.line) >= 2 /\ signals_finished(g.line, Len(g.line)))
              => g.ctl = "return"

\* a direction ended on the one point it appended in grey matter
C9_Witness ==
    /\ g.ctl = "return"
    /\ Len(g.line) >= 3
    /\ getPositionValue(g.line[Len(g.line)]) = 2

\* C10: when initialize fails, [pos] is returned iff is_keep_single_pts and
\* min_nbr_pts == 1, and nothing otherwise; a seed in background tissue with
\* min_nbr_pts = 1 gives [pos] with is_keep_single_pts and nothing without.
C10_InitFailure ==
    /\ (pc = "done" /\ ~g.t.ok) =>
          g.result = IF param.is_keep_single_pts /\ param.min_nbr_pts = 1
                     THEN Result(<<g.pos>>, <<>>)
                     ELSE NoneResult
    /\ (pc = "done" /\ getPositionValue(g.pos) = 0 /\ param.min_nbr_pts = 1) =>
          g.result = IF param.is_keep_single_pts
                     THEN Result(<<g.pos>>, <<>>)
                     ELSE NoneResult

\* initialize failed for a seed in background tissue and [pos] was returned
C10_Witness ==
    /\ pc = "done"
    /\ ~g.t.ok
    /\ getPositionValue(g.pos) = 0
    /\ param.is_keep_single_pts
    /\ param.min_nbr_pts = 1
    /\ g.result = Result(<<g.pos>>, <<>>)

\* the four directions wm get_segment samples from pos with incoming v
wm_dir1(pos, v, rng) == getValidDirection(pos, v, rng)
wm_dir2(pos, v, rng) == sample_after(pos, 1, 2, wm_dir1(pos, v, rng))
wm_dir3(pos, v, rng) == sample_after(pos, 1, 2, wm_dir2(pos, v, rng))
wm_dir4(pos, v, rng) == sample_after(pos, 1, 1, wm_dir3(pos, v, rng))

same_four_samples(pos, v, rng) ==
    /\ wm_dir2(pos, v, rng).v = wm_dir1(pos, v, rng).v
    /\ wm_dir3(pos, v, rng).v = wm_dir1(pos, v, rng).v
    /\ wm_dir4(pos, v, rng).v = wm_dir1(pos, v, rng).v

\* the line is about to take a step from a point the wm handler propagates
AtWmPoint ==
    /\ pc \in {"forward", "backward"}
    /\ get_tissue_tracker_function(g.line[Len(g.line)]) = "wm"

constant_field_step(pos, v, rng) ==
    same_four_samples(pos, v, rng) =>
        /\ wm_get_segment(pos, v, rng).dir = wm_dir1(pos, v, rng).v
        /\ wm_get_segment(pos, v, rng).pos * Unit
             = pos * Unit + StepSize * wm_dir1(pos, v, rng).v

\* C16: when the four directions sampled by the wm handler's get_segment are
\* the same direction v, the new direction is v and the new position is
\* pos + step_size * v.
C16_ConstantFieldStep ==
    AtWmPoint =>
        constant_field_step(g.line[Len(g.line)], g.line_dirs[Len(g.line_dirs)],
                            g.rng)

\* a wm step in a constant field, from a point the line reached by a step
C16_Witness ==
    /\ AtWmPoint
    /\ Len(g.line) >= 2
    /\ same_four_samples(g.line[Len(g.line)], g.line_dirs[Len(g.line_dirs)],
                         g.rng)
    /\ wm_dir1(g.line[Len(g.line)], g.line_dirs[Len(g.line_dirs)], g.rng).valid

\* a wm step whose four samples differ
MixedSamplesStep ==
    /\ AtWmPoint
    /\ ~same_four_samples(g.line[Len(g.line)], g.line_dirs[Len(g.line_dirs)],
                          g.rng)

\* both directions returned a line and the two were merged
BothReturned == pc = "done" /\ g.fwd_end = "return" /\ g.bwd_end = "return"

\* <<p, q>> are consecutive points of l, in either order
consecutive_in(l, p, q) ==
    \E i \in 1 .. Len(l) - 1 :
        (l[i] = p /\ l[i + 1] = q) \/ (l[i] = q /\ l[i + 1] = p)

merged_as_stated(m, f, b) ==
    /\ f[1] = g.t.init_pos
    /\ b[1] = g.t.init_pos
    /\ Len(m) = Len(f) + Len(b) - 1
    /\ \A i \in 1 .. Len(f) : m[i] = f[Len(f) + 1 - i]
    /\ \A j \in 1 .. Len(b) : m[Len(f) - 1 + j] = b[j]
    /\ \A k \in 1 .. Len(m) - 1 :
          consecutive_in(f, m[k], m[k + 1]) \/ consecutive_in(b, m[k], m[k + 1])

\* C17: when both directions return a line, of f and of b points, the merged
\* line has f + b - 1 points: the forward line reversed down to the seed, which
\* stands once at position f, then the backward line after its seed; every two
\* consecutive merged points are consecutive in the forward or backward line.
C17_MergedLine ==
    BothReturned => merged_as_stated(g.mline, g.forward.pts, g.backward.pts)

\* two lines of different lengths were merged
C17_Witness ==
    /\ BothReturned
    /\ Len(g.forward.pts) >= 3
    /\ Len(g.backward.pts) >= 2
    /\ Len(g.mline) = Len(g.forward.pts) + Len(g.backward.pts) - 1

\* the backward _get_line has been called for this seed
BackwardRan ==
    pc \in {"backward", "bwd_ret"} \/ g.bwd_end \in {"return", "break", "exhausted"}

ForwardReturnedLine == ~g.forward.isNone /\ Len(g.forward.pts) > 0

\* C18: the backward growth runs iff is_single_direction is off and the forward
\* growth returned a non-empty line; when it is skipped for single-direction
\* mode, the forward line alone meets the acceptance test.
C18_BackwardIff ==
    /\ BackwardRan => (~param.is_single_direction /\ ForwardReturnedLine)
    /\ (pc = "done" /\ ~param.is_single_direction /\ ForwardReturnedLine)
          => BackwardRan
    /\ (pc = "done" /\ param.is_single_direction /\ ForwardReturnedLine) =>
          /\ g.mline = g.forward.pts
          /\ Accepted <=> (Len(g.forward.pts) > 1 /\ in_length_bounds(g.forward.pts))
          /\ Accepted => g.result.pts = g.forward.pts

\* single-direction mode: the forward line was returned as the streamline
C18_Witness ==
    /\ pc = "done"
    /\ param.is_single_direction
    /\ ForwardReturnedLine
    /\ ~BackwardRan
    /\ Accepted
    /\ g.result.pts = g.forward.pts

\* the backward growth ran after a forward line
BackwardRanAfterForward ==
    pc = "done" /\ BackwardRan /\ ~param.is_single_direction /\ ForwardReturnedLine

\* how _get_line ended in each direction it ran, with the value it returned
EndedDirections ==
    {d \in {[how |-> g.fwd_end, ret |-> g.forward],
            [how |-> g.bwd_end, ret |-> g.backward]} :
        d.how \in {"return", "break", "exhausted"}}

\* C19: _get_line returns a line only when append_to_line signalled
\* is_finished with a non-null line; when propagate gives the null triple, the
\* handler gives a null line or the line reaches max_nbr_pts, it returns None
\* and the points grown in that direction are not in the merged line.
C19_LineOnlyOnFinish ==
    /\ \A d \in EndedDirections :
          /\ ~d.ret.isNone <=> d.how = "return"
          /\ ~d.ret.isNone =>
                /\ Len(d.ret.pts) >= 2
                /\ signals_finished(d.ret.pts, Len(d.ret.pts))
    /\ (pc = "done" /\ g.fwd_end \in {"break", "exhausted"}) =>
          (g.mline = <<>> /\ ~Accepted)
    /\ (pc = "done" /\ g.bwd_end \in {"break", "exhausted"}) =>
          (g.mline = g.forward.pts /\ ~Accepted)

\* a direction grew points and reached max_nbr_pts without a finish signal
C19_Witness ==
    /\ pc = "fwd_ret"
    /\ g.fwd_end = "exhausted"
    /\ Len(g.line) >= 2
    /\ g.forward.isNone

\* a direction grew points and then propagate gave the null triple
DroppedOnNullTriple ==
    /\ pc = "fwd_ret" /\ g.fwd_end = "break" /\ Len(g.line) >= 2
    /\ g.forward.isNone

\* a handler gave a null line
DroppedOnNullLine ==
    /\ pc = "bwd_ret" /\ g.bwd_end = "break" /\ g.line = <<>>
    /\ g.backward.isNone

\* what the handler's _append_to_line returns for the propagated triple p
handler_out(line, dirs, p) ==
    append_to_line(p.label, p.pos, p.dir, line, dirs, p.rng)

lengths_agree(a) == a.isNone \/ Len(a.line) = Len(a.dirs)

next_append_agrees(line, dirs, p) ==
    p.pos = NoPos \/ lengths_agree(handler_out(line, dirs, p))

\* C20: at every pass of the loop of _get_line, and after every
\* _append_to_line that returns a non-null line, line and line_dirs have the
\* same length.
C20_LineAndDirsSameLength ==
    /\ Len(g.line) = Len(g.line_dirs)
    /\ (pc \in {"forward", "backward"} /\ get_line_guard(g.line)) =>
          next_append_agrees(g.line, g.line_dirs,
                             propagate(g.line[Len(g.line)],
                                       g.line_dirs[Len(g.line_dirs)], g.rng))

\* the loop is entered again after a nucleus handler appended a point
C20_Witness ==
    /\ pc \in {"forward", "backward"}
    /\ Len(g.line) >= 2
    /\ Len(g.line) = Len(g.line_dirs)
    /\ get_tissue_tracker_function(g.line[Len(g.line)]) = "putamen"

\* the segment the handler resolved at pos computes
segment_at(pos, v, rng) ==
    get_segment(get_tissue_tracker_function(pos), pos, v, rng)

null_triple(p) == p.pos = NoPos /\ p.dir = NoDir /\ p.label = NoLabel

propagate_as_stated(p, s) ==
    /\ null_triple(p) <=> ~s.valid
    /\ s.valid =>
          /\ p.pos = s.pos
          /\ p.dir = s.dir
          /\ p.label = atlas[PosToVox(s.pos)]

\* the loop of _get_line is about to call propagate
AtPropagate == pc \in {"forward", "backward"} /\ get_line_guard(g.line)

LastPos == g.line[Len(g.line)]
LastDir == g.line_dirs[Len(g.line_dirs)]

InvalidSegmentWithPosition ==
    /\ AtPropagate
    /\ ~segment_at(LastPos, LastDir, g.rng).valid
    /\ segment_at(LastPos, LastDir, g.rng).pos # NoPos
    /\ null_triple(propagate(LastPos, LastDir, g.rng))

\* C22: initialize(pos) succeeds iff the forward and the backward initial
\* direction at pos are both non-null, and whether it succeeds or not the
\* tracker then holds init_pos = pos and the pair obtained for this seed, not
\* that of the seed before.
C22_InitializeRecords ==
    (pc # "seed") =>
        /\ g.t.ok <=> (g.t.forward_dir # NoDir /\ g.t.backward_dir # NoDir)
        /\ g.t.init_pos = g.pos
        /\ g.t.forward_dir
             = get_init_direction(g.pos, seed_rng(g.pos, 0)).fwd
        /\ g.t.backward_dir
             = get_init_direction(g.pos, seed_rng(g.pos, 0)).bwd

\* a failed attempt recorded its position and its null pair
C22_Witness ==
    /\ pc = "done"
    /\ ~g.t.ok
    /\ g.t.init_pos = g.pos
    /\ g.t.forward_dir = NoDir
    /\ g.t.backward_dir = NoDir

\* the labels whose handler is background_tissue_tracker or csf_tissue_tracker
ExcludedLabels ==
    {l \in DOMAIN tissue_trackers : tissue_trackers[l] \in {"background", "csf"}}

null_line_finished(a) == a.isNone /\ a.fin

\* the step to p ends the direction on a null line
excluded_step(line, dirs, p) ==
    (p.pos # NoPos /\ p.label \in ExcludedLabels) =>
        /\ null_line_finished(handler_out(line, dirs, p))
        /\ body_after_propagate(line, dirs, p).ctl = "break"
        /\ body_after_propagate(line, dirs, p).line = <<>>

\* the direction that ran last ended on a null line
EndedOnNullLine == g.ctl = "break" /\ g.line = <<>>

\* C23: when the new point of a step lies in a background or csf label (0, 3,
\* 10, 12), append_to_line signals finished with a null line, the direction
\* yields no line and the seed gives no primary line, only the one-point line
\* when single points are kept.
C23_ExcludedLabelDiscards ==
    /\ ExcludedLabels = {0, 3, 10, 12}
    /\ AtPropagate =>
          excluded_step(g.line, g.line_dirs,
                        propagate(LastPos, LastDir, g.rng))
    /\ EndedOnNullLine =>
          IF g.is_forward THEN g.forward.isNone ELSE g.backward.isNone
    /\ (pc = "done" /\ EndedOnNullLine) =>
          /\ ~Accepted
          /\ g.result = IF param.is_keep_single_pts /\ param.min_nbr_pts = 1
                        THEN Result(<<g.pos>>, <<>>)
                        ELSE NoneResult

\* the backward direction stepped into an excluded label after a forward line
\* that passes the length test, and the seed gave no line
C23_Witness ==
    /\ pc = "done"
    /\ EndedOnNullLine
    /\ g.fwd_end = "return"
    /\ g.bwd_end = "break"
    /\ in_length_bounds(g.forward.pts)
    /\ g.result.isNone

\* a step into cerebrospinal fluid
StepIntoCsf ==
    /\ AtPropagate
    /\ propagate(LastPos, LastDir, g.rng).label = 3

\* the handler resolved at the last point steps by the 2nd-order or the
\* 4th-order scheme
AtSchemeStep ==
    /\ AtPropagate
    /\ get_tissue_tracker_function(LastPos) \notin {"gm", "csf", "background"}

FirstSampleNull == get_direction(LastPos, LastDir, g.rng).dir = NoDir

\* the second sample, half a step along the first
SecondSampleNull ==
    get_direction(Displace(LastPos, 1, 2, wm_dir1(LastPos, LastDir, g.rng).v),
                  wm_dir1(LastPos, LastDir, g.rng).v,
                  wm_dir1(LastPos, LastDir, g.rng).rng).dir = NoDir

LaterSampleNull ==
    /\ AtSchemeStep
    /\ ~FirstSampleNull
    /\ SecondSampleNull
    /\ segment_at(LastPos, LastDir, g.rng).valid

\* No line of _get_line is a list of lines: the lists of auxiliary lines
\* (others) of get_line_from_seed are empty in every state.
OthersAlwaysEmpty == g.others = <<>> /\ g.result.others = <<>>

\* the value _get_line returned in the direction that just ended
JustReturned == IF g.is_forward THEN g.forward ELSE g.backward

\* one pass of the loop leaves the line as it is (no pass, or a null triple),
\* appends the propagated point to it, or drops it for a null line
pass_appends_only(line, line2, p) ==
    \/ line2 = line
    \/ line2 = <<>>
    \/ line2 = Append(line, p.pos)

\* C29: no pass of _get_line removes a point of the line, and a line that is
\* returned is the whole sequence of the points appended, also when its last
\* point is outside the image: the trimming code after the return is not run.
C29_NoTrimming ==
    /\ (pc \in {"forward", "backward"} /\ Len(g.line) >= 2) =>
          g.line[1] = g.t.init_pos
    /\ (pc \in {"fwd_ret", "bwd_ret"} /\ g.ctl = "return") =>
          (JustReturned = Some(g.line) /\ Len(g.line) >= 2)
    /\ AtPropagate =>
          pass_appends_only(g.line, get_line_body(g.line, g.line_dirs, g.rng).line,
                            propagate(LastPos, LastDir, g.rng))

\* a line was returned whose last point is outside the image
C29_Witness ==
    /\ pc \in {"fwd_ret", "bwd_ret"}
    /\ g.ctl = "return"
    /\ JustReturned = Some(g.line)
    /\ ~isPositionInBound(g.line[Len(g.line)])

\* a pass that stays in the loop has made the line one point longer
pass_grows(line, b) == b.ctl = "loop" => Len(b.line) = Len(line) + 1

\* before its k-th call of propagate the line of _get_line has k points, so
\* propagate is called at most max_nbr_pts - 1 times
StepsBounded ==
    /\ pc \in {"forward", "backward"} => Len(g.line) >= 1
    /\ AtPropagate =>
          /\ Len(g.line) <= param.max_nbr_pts - 1
          /\ pass_grows(g.line, get_line_body(g.line, g.line_dirs, g.rng))

\* the steps get_line_from_seed has left at most: the phases still to come,
\* and within a _get_line the points the line can still take
Phase ==
    CASE pc = "seed" -> 5
      [] pc = "forward" -> 4
      [] pc = "fwd_ret" -> 3
      [] pc = "backward" -> 2
      [] pc = "bwd_ret" -> 1
      [] OTHER -> 0

Rank ==
    Phase * (MaxPts + 2)
        + (IF pc \in {"forward", "backward"} THEN MaxPts + 1 - Len(g.line) ELSE 0)

\* C30: every pass of the loop of _get_line exits or makes the line one point
\* longer, so a call makes at most max_nbr_pts - 1 propagate steps; and every
\* step of get_line_from_seed lowers a rank that is never negative, so
\* get_line_from_seed comes to its end for every seed.
C30_Terminates ==
    /\ [](StepsBounded /\ Rank >= 0 /\ (Rank = 0 <=> pc = "done"))
    /\ [][Rank' < Rank]_vars

\* the loop ran out: the line has max_nbr_pts points and no pass follows
C30_Witness ==
    /\ pc \in {"fwd_ret", "bwd_ret"}
    /\ g.ctl = "exhausted"
    /\ param.max_nbr_pts >= 2
    /\ Len(g.line) = param.max_nbr_pts

\* the grown line was rejected: a growth returned no line, or the merged
\* length is outside [min_nbr_pts, max_nbr_pts]
GrownLineRejected ==
    \/ g.forward.isNone
    \/ g.backward.isNone
    \/ ~in_length_bounds(g.mline)

\* C31: when initialize succeeds but the grown line is rejected (a growth
\* returned no line, or the merged length is outside the bounds),
\* get_line_from_seed returns [pos] if is_keep_single_pts and min_nbr_pts == 1,
\* and None otherwise.
C31_RejectedLine ==
    (pc = "done" /\ g.t.ok /\ GrownLineRejected) =>
        g.result = IF param.is_keep_single_pts /\ param.min_nbr_pts = 1
                   THEN Result(<<g.pos>>, <<>>)
                   ELSE NoneResult

\* a forward line was grown, the backward growth returned no line, and the
\* seed alone was returned
C31_Witness ==
    /\ pc = "done"
    /\ g.t.ok
    /\ ~g.forward.isNone
    /\ g.backward.isNone
    /\ g.bwd_end \in {"break", "exhausted"}
    /\ param.is_keep_single_pts
    /\ param.min_nbr_pts = 1
    /\ g.result = Result(<<g.pos>>, <<>>)

\* a merged line longer than max_nbr_pts was rejected and nothing was returned
RejectedTooLong ==
    /\ pc = "done"
    /\ g.t.ok
    /\ ~g.forward.isNone
    /\ ~g.backward.isNone
    /\ Len(g.mline) > param.max_nbr_pts
    /\ g.result = NoneResult

\* the merged line of a forward and a backward growth was returned
AcceptedBidirectional == pc = "done" /\ Accepted /\ g.bwd_end = "return"

\* the last point of a returned direction is one whose append signalled
\* is_finished
ends_on_finish(l) == Len(l) >= 2 /\ signals_finished(l, Len(l))

\* C33: an accepted bidirectional line runs from the end of the forward growth
\* to the end of the backward growth: its first point is the last point of the
\* forward line, its last point the last point of the backward line, and both
\* are points at which a handler signalled is_finished.
C33_EndToEnd ==
    AcceptedBidirectional =>
        /\ g.result.pts[1] = g.forward.pts[Len(g.forward.pts)]
        /\ g.result.pts[Len(g.result.pts)] = g.backward.pts[Len(g.backward.pts)]
        /\ ends_on_finish(g.forward.pts)
        /\ ends_on_finish(g.backward.pts)

\* a bidirectional line was accepted whose two ends are different points,
\* neither of them the seed
C33_Witness ==
    /\ AcceptedBidirectional
    /\ g.result.pts[1] # g.result.pts[Len(g.result.pts)]
    /\ g.result.pts[1] # g.pos
    /\ g.result.pts[Len(g.result.pts)] # g.pos

-----------------------------------------------------------------------------
(* Properties of can_continue (SpecGate) *)

StochasticStop == {"GmTissue", "NucleiTissue", "CsfTissue", "GmSurfaceTissue"}

\* the tissue samples of the last n points of the line
LastSamples(n) ==
    {getPositionValue(tc.line[k]) : k \in (Len(tc.line) - n + 1) .. Len(tc.line)}

\* the line has W >= 1 points at least and its last W samples are the same
WindowIdentical ==
    /\ tc.c.max_consecutive_steps >= 1
    /\ Len(tc.line) >= tc.c.max_consecutive_steps
    /\ Cardinality(LastSamples(tc.c.max_consecutive_steps)) = 1

\* C11: for a stochastic-stop configurator, when the last W =
\* max_consecutive_steps points of the line have the same tissue sample,
\* can_continue returns False whatever the draw.
C11_OscillationGuard ==
    (pc = "gate_done" /\ tc.c.cls \in StochasticStop /\ WindowIdentical)
        => tc.ret = FALSE

\* a window of several identical samples stopped a draw that the gate would
\* have let through
C11_Witness ==
    /\ pc = "gate_done"
    /\ tc.c.cls \in StochasticStop
    /\ ~tc.c.stop_in_nuclei
    /\ tc.c.max_consecutive_steps >= 2
    /\ WindowIdentical
    /\ Cardinality({getPositionValue(tc.line[k]) : k \in 1 .. Len(tc.line)}) > 1
    /\ below(tc.rand_value, difference(tc.c.cls, tc.c.id, tc.value))
    /\ tc.ret = FALSE

\* r < d, with d = value/label, or |value - label| for NucleiTissue
DrawBelowD ==
    IF tc.c.cls = "NucleiTissue"
    THEN \/ tc.rand_value < tc.value - tc.c.id * DrawDen
         \/ tc.rand_value < tc.c.id * DrawDen - tc.value
    ELSE tc.rand_value * tc.c.id < tc.value

\* C12 (as stated): a line with fewer than W = max_consecutive_steps points is
\* not stuck: the guard forces no stop and the random gate decides.
C12_ShortWindowNotStuck ==
    (/\ pc = "gate_done"
     /\ tc.c.cls \in StochasticStop
     /\ ~tc.c.stop_in_nuclei
     /\ Len(tc.line) < tc.c.max_consecutive_steps)
        => (tc.ret <=> DrawBelowD)

\* the window of the call is not all-identical
WindowMixed ==
    Cardinality({getPositionValue(tc.line[k]) :
                    k \in (IF tc.c.max_consecutive_steps = 0
                              \/ tc.c.max_consecutive_steps >= Len(tc.line)
                           THEN 1
                           ELSE Len(tc.line) - tc.c.max_consecutive_steps + 1)
                          .. Len(tc.line)}) > 1

\* C13 (as stated): when the history window is not all-identical, can_continue
\* returns True iff r < d.
C13_GateAsStated ==
    (pc = "gate_done" /\ tc.c.cls \in StochasticStop /\ WindowMixed)
        => (tc.ret <=> DrawBelowD)

\* C13 (amended): when the history window is not all-identical, and the
\* configurator is not a NucleiTissue built with stop_in_nuclei, can_continue
\* returns True iff r < d; so with d = 0 it returns False for every draw.
C13_Gate ==
    (/\ pc = "gate_done"
     /\ tc.c.cls \in StochasticStop
     /\ ~tc.c.stop_in_nuclei
     /\ WindowMixed)
        => (tc.ret <=> DrawBelowD)

\* the window was mixed, d = 0, the draw was 0, and the line was stopped
C13_Witness ==
    /\ pc = "gate_done"
    /\ tc.c.cls \in StochasticStop
    /\ ~tc.c.stop_in_nuclei
    /\ WindowMixed
    /\ difference(tc.c.cls, tc.c.id, tc.value).num = 0
    /\ tc.rand_value = 0
    /\ tc.ret = FALSE

-----------------------------------------------------------------------------
(* Properties of finalize_streamline (SpecFinal) *)

\* C24: an extra ending step is rolled back, and finalization stops, iff the
\* label at its new point differs from the handler's own label; a step whose
\* new point has the handler's own label stays on the line.
C24_RollbackIffLabelDiffers ==
    \A k \in 1 .. Len(tc.steps) :
        tc.steps[k].kept <=> (tc.steps[k].new_id = tc.c.id)

\* an extra step whose new point has the handler's own label was rolled back
\* and the line came back as it was handed in
C24_OwnLabelRolledBack ==
    /\ pc = "final_done"
    /\ Len(tc.steps) = 1
    /\ tc.steps[1].new_id = tc.c.id
    /\ ~tc.steps[1].kept
    /\ tc.nb >= 2
    /\ tc.ret = tc.line

\* the count a position-seeded generator draws in [1, max_nb_ending_steps]
seeded_count(pos, rng_seed, max_nb_ending_steps) ==
    1 + (Advance(Hash(pos, rng_seed)) % max_nb_ending_steps)

AfterDraw == pc = "final_loop" /\ tc.i = 0 /\ tc.steps = <<>>

\* C25 as stated: the number of extra steps attempted is in
\* [1, max_nb_ending_steps] and is fixed by the last position and the run seed.
C25_AttemptedAsStated ==
    (pc = "final_done") =>
        /\ Len(tc.steps) >= 1
        /\ Len(tc.steps) <= tc.max_nb_ending_steps

\* C25: for a valid endpoint with max_nb_ending_steps >= 1, the count of extra
\* steps drawn is in [1, max_nb_ending_steps] and is fixed by the last position
\* of the line and the run seed, and between 1 and that count steps are
\* attempted; otherwise no step is attempted.
C25_EndingStepCount ==
    /\ (AfterDraw /\ tc.max_nb_ending_steps >= 1) =>
          /\ tc.nb = seeded_count(tc.line[Len(tc.line)], tc.rng_seed,
                                  tc.max_nb_ending_steps)
          /\ tc.nb >= 1
          /\ tc.nb <= tc.max_nb_ending_steps
    /\ (pc = "final_done" /\ is_valid_endpoint(tc.c)
          /\ tc.max_nb_ending_steps >= 1) =>
          (Len(tc.steps) >= 1 /\ Len(tc.steps) <= tc.nb)
    /\ (pc = "final_done"
          /\ (~is_valid_endpoint(tc.c) \/ tc.max_nb_ending_steps = 0)) =>
          tc.steps = <<>>

\* the largest count was drawn and a step was attempted
C25_Witness ==
    /\ pc = "final_done"
    /\ tc.max_nb_ending_steps = MaxEnding
    /\ tc.nb = MaxEnding
    /\ Len(tc.steps) >= 1

\* the smallest count was drawn from the same range
DrawnOne == AfterDraw /\ tc.max_nb_ending_steps = MaxEnding /\ tc.nb = 1

-----------------------------------------------------------------------------
(* Properties of get_closest_vertex (SpecVertex) *)

\* index k (from 0) is the first candidate at the least distance from pos
first_nearest(pos, canditates, k) ==
    /\ k \in 0 .. (Len(canditates) - 1)
    /\ \A j \in 0 .. (Len(canditates) - 1) :
          /\ euclidean(pos, canditates[k + 1]) <= euclidean(pos, canditates[j + 1])
          /\ j < k =>
                euclidean(pos, canditates[k + 1]) < euclidean(pos, canditates[j + 1])

\* C26: get_closest_vertex returns None when the voxel has no registered
\* vertices and otherwise, for every non-empty candidate list, the index of
\* the first candidate at the least Euclidean distance from pos.
C26_ClosestVertex ==
    (pc = "vertex_done") =>
        /\ ~tc.registered => (tc.ret = NoVertex /\ ~tc.raised)
        /\ (tc.registered /\ Len(tc.canditates) >= 1) =>
              (~tc.raised /\ first_nearest(tc.pos, tc.canditates, tc.ret))

\* two candidates, both at 99 or more from pos: min_idx is never assigned
C26_AllCandidatesFar ==
    /\ pc = "vertex_done"
    /\ tc.registered
    /\ Len(tc.canditates) = 2
    /\ \A k \in 1 .. 2 : euclidean(tc.pos, tc.canditates[k]) >= min_dist_start
    /\ tc.raised

\* a tie between two nearest candidates went to the first
TieToFirst ==
    /\ pc = "vertex_done"
    /\ Len(tc.canditates) = 3
    /\ tc.ret = 1
    /\ euclidean(tc.pos, tc.canditates[2]) = euclidean(tc.pos, tc.canditates[3])
    /\ euclidean(tc.pos, tc.canditates[2]) < euclidean(tc.pos, tc.canditates[1])
    /\ tc.canditates[2] # tc.canditates[3]

-----------------------------------------------------------------------------
(* Properties of the script's length arguments (SpecArgs) *)

\* C34 (as stated): for every min_length, max_length and step_size that pass
\* the script's validation, the derived counts satisfy
\* min_nbr_pts <= max_nbr_pts.
C34_MinAtMostMax ==
    pc = "derived" => param.min_nbr_pts <= param.max_nbr_pts

\* --minL equal to --maxL passed the validation and left no acceptable length
C34_EqualLengths ==
    /\ pc = "derived"
    /\ tc.min_length = tc.max_length
    /\ param.min_nbr_pts = param.max_nbr_pts + 1

\* min_nbr_pts <= max_nbr_pts holds exactly when maxL reaches one more whole
\* step than minL does
MinAtMostMaxIff ==
    pc = "derived" =>
        (param.min_nbr_pts <= param.max_nbr_pts
            <=> (tc.max_length \div tc.step_size) > (tc.min_length \div tc.step_size))

-----------------------------------------------------------------------------
(* Properties of the putamen and pallidum handlers (SpecNuclei) *)

\* the inspected points: the cur points before the last one of the line
InspectedPoints ==
    {i \in 1 .. Len(tc.line) - 1 : i >= Len(tc.line) - tc.cur}

\* C35: the putamen and pallidum handlers always append the new point, and
\* signal is_finished only when the line already has more than 20 points and
\* every inspected point (a window of 1 to 19 points before the last one) has
\* the handler's own label; a line of 20 points or fewer is never stopped.
C35_NucleiStop ==
    pc = "nuclei_done" =>
        /\ ~tc.out.isNone
        /\ Len(tc.out.line) = Len(tc.line) + 1
        /\ SubSeq(tc.out.line, 1, Len(tc.line)) = tc.line
        /\ tc.out.fin =>
              /\ Len(tc.line) > 20
              /\ Cardinality(InspectedPoints) = tc.cur
              /\ tc.cur \in 1 .. 19
              /\ \A i \in InspectedPoints :
                    getPositionValue(tc.line[i]) = tc.tissue_value
        /\ Len(tc.line) <= 20 => ~tc.out.fin

\* a line of 21 points was stopped on a window of 19 points of the handler's
\* label, its last point and its point before the window being of another label
C35_Witness ==
    /\ pc = "nuclei_done"
    /\ tc.out.fin
    /\ Len(tc.line) = 21
    /\ tc.cur = 19
    /\ getPositionValue(tc.line[1]) # tc.tissue_value

\* a line of more than 20 points was not stopped: an inspected point has
\* another label
NotStoppedOnMixedWindow ==
    /\ pc = "nuclei_done"
    /\ ~tc.out.fin
    /\ Len(tc.line) > 20
    /\ \E i \in InspectedPoints : getPositionValue(tc.line[i]) # tc.tissue_value

\* a line of 20 points whose every point has the handler's label was not stopped
NotStoppedAtTwenty ==
    /\ pc = "nuclei_done"
    /\ ~tc.out.fin
    /\ Len(tc.line) = 20
    /\ \A i \in 1 .. 20 : getPositionValue(tc.line[i]) = tc.tissue_value

-----------------------------------------------------------------------------
(* Properties of finalize_streamline of GmSurfaceTissue (SpecSurface) *)

\* c = min(3, len(line) - 1), of the line as it was handed over
removed_count == IF Len(tc.line0) - 1 < 3 THEN Len(tc.line0) - 1 ELSE 3

\* the point k steps from the last point left, against the normal
along_normal(k) ==
    tc.line0[Len(tc.line0) - removed_count] - k * ((StepSize * tc.normal) \div RK4Den)

\* the line left after the removal, with m points appended
regressed(m) ==
    SubSeq(tc.line0, 1, Len(tc.line0) - removed_count)
        \o [k \in 1 .. m |-> along_normal(k)]

\* m points were appended: they have the handler's label, and either m = c or
\* the next point has another label
appended_as_stated(m) ==
    /\ tc.ret = regressed(m)
    /\ \A k \in 1 .. m : getPositionValue(along_normal(k)) = tc.id
    /\ m < removed_count => getPositionValue(along_normal(m + 1)) # tc.id

\* C36: when a vertex normal is found for the voxel, finalize_streamline of
\* GmSurfaceTissue removes c = min(3, len(line) - 1) trailing points, then
\* appends at most c points along the normal, stopping at and removing the
\* first one whose label differs from the handler's; the returned line has
\* between 1 and the original number of points.  When no vertex is registered
\* for the voxel it returns an empty line.
C36_SurfaceRegression ==
    /\ (pc = "surface_done" /\ tc.normal_idx # NoVertex) =>
          /\ \E m \in 0 .. removed_count : appended_as_stated(m)
          /\ Len(tc.ret) >= 1
          /\ Len(tc.ret) <= Len(tc.line0)
    /\ (pc # "surface" /\ ~tc.registered) =>
          pc = "surface_done" /\ tc.ret = <<>>

\* three points were removed and fewer than three appended, the appending
\* stopped by a point of another label
C36_Witness ==
    /\ pc = "surface_done"
    /\ tc.normal_idx # NoVertex
    /\ removed_count = 3
    /\ Len(tc.ret) = Len(tc.line0) - 2
    /\ tc.ret # SubSeq(tc.line0, 1, Len(tc.ret))

\* no vertex is registered for the voxel and the empty line was returned
NoVertexRegistered ==
    pc = "surface_done" /\ ~tc.registered /\ tc.ret = <<>>

\* all the removed points were replaced
AllReplaced ==
    /\ pc = "surface_done"
    /\ tc.normal_idx # NoVertex
    /\ removed_count = 3
    /\ Len(tc.ret) = Len(tc.line0)

====
